---- MODULE Spec2Model ----
(***************************************************************************)
(* Model of the isopod workspace: the isofs image writer (file tree with   *)
(* upsert-by-path, LBA allocator, sector writer, IsoWriter::write), the    *)
(* isopod layout allocator, the isopod volume-descriptor scan and parsers, *)
(* the isopod directory reader and the isopod Iso with its builder.        *)
(***************************************************************************)
EXTENDS Integers, Sequences, FiniteSets, TLC

VARIABLES
  sector_size,       \* WriterOptions.sector_size of the IsoWriter
  filesystem,        \* root of the Filesystem the caller is building
  volumes,           \* IsoWriter.volumes: one root directory per added PrimaryVolume
  sink,              \* the writes the sink has received, in order
  position,          \* the sink's stream position
  phase,             \* "build" until IsoWriter::write has returned, then "written"
  upserts,           \* number of upsert_file calls made so far
  last_upsert,       \* arguments and result of the latest upsert_file call on filesystem
  allocator,         \* a free-standing isofs LbaAllocator
  allocated,         \* its allocate calls so far: <<size, returned lba>>
  layout_allocator,  \* a free-standing isopod layout LbaAllocator
  layout_allocated,  \* its allocate calls so far: <<size, returned lba>>
  storage,           \* the byte storage of an isopod Iso, from sector 16 on
  scan_position,     \* scan_volumes: position
  scan_volumes,      \* scan_volumes: volumes
  scan_pc,           \* scan_volumes: "idle", "loop", "ok" or "panic"
  image,             \* the sectors of the image an isopod reader is opened on, from LBA 1 on
  root_entry,        \* the DirectoryEntry Directory::read_from_iso is first called with
  read_stack,        \* read_from_iso: one frame per call in progress, innermost last
  read_entry,        \* read_from_iso: the record last handed to parse_from_buffer and its result
  read_pc,           \* read_from_iso: "idle", "run", "ok" or "err"
  read_result,       \* read_from_iso: the Directory the outermost call returned
  codec_value,       \* the value IsoSerialize::serialize is called on
  codec_out,         \* the output buffer it is called with
  codec_result,      \* what the call returned, "None" before it
  aligned_writer,    \* a free-standing SectorWriter: sector_ix, sector_size, bytes_offset
  aligned_io,        \* its storage: the writes received and the stream position
  aligned_result,    \* its latest write_aligned call: number, buffer length, result
  merge_entries,     \* root.entries of a Filesystem that takes a longer run of upsert_file calls
  merge_last,        \* its latest upsert_file call: number and the entry handed to root.upsert
  parse_sector,      \* a 2048-byte descriptor sector handed to the two VolumeDescriptor parsers
  parse_result,      \* what parse.rs and lib.rs made of it: "Ok", "Err" or the panic
  iso,               \* an isopod Iso: volume_descriptor, root_directory, modified
  iso_last,          \* the latest call on it: name, result and the Iso before the call
  iso_image,         \* what write_to or save last wrote, and the tree it was written from
  iso_read,          \* what read_from made of that image, and the tree the image was written from
  iso_ops            \* number of calls made so far

writer_vars == <<sector_size, filesystem, volumes, sink, position, phase, upserts, last_upsert>>
alloc_vars == <<allocator, allocated, layout_allocator, layout_allocated>>
scan_vars == <<storage, scan_position, scan_volumes, scan_pc>>
read_vars == <<image, root_entry, read_stack, read_entry, read_pc, read_result>>
codec_vars == <<codec_value, codec_out, codec_result>>
sector_vars == <<aligned_writer, aligned_io, aligned_result>>
merge_vars == <<merge_entries, merge_last>>
parse_vars == <<parse_sector, parse_result>>
iso_vars == <<iso, iso_last, iso_image, iso_read, iso_ops>>
vars == <<writer_vars, alloc_vars, scan_vars, read_vars, codec_vars, sector_vars, merge_vars, parse_vars, iso_vars>>

----------------------------------------------------------------------------
(* Bounds of the model *)

MaxUpserts == 2
MaxVolumes == 2
MaxDepth == 2
MaxAllocations == 3
MaxSectors == 3
MaxRecords == 2
MaxStack == 3
MaxWrites == 3
MaxMerges == 3
MaxIsoOps == 3

(* Inputs *)

LongName == "ABCDEFGHIJKLMNOPQRSTUVWXYZ0123456"
Names == {"A", "BB", LongName}
SectorSizes == {128, 2048}
Sources == {1, 2}
SourceLen(source) == IF source = 1 THEN 0 ELSE 130
AllocationSizes == {0, 1, 129, 2049}
StartLbas == {16, 17}
TypeBytes == {0, 1, 2, 255}

(* Program constants. The u32 quantities (LBAs, sizes) stay far below 2^32 in
   every reachable state, so they are plain integers; u8 arithmetic wraps. *)

U8 == 256
DescriptorExtent == 2048
FileIdentifierLength == 32
DirectoryIdentifierLength == 31
VOLUME_DESCRIPTOR_SIZE == 2048

CD001 == <<67, 68, 48, 48, 49>>

(* Option::None, and the source of an entry that is not a file *)
None == -1

(* the decimal digits of a number, as bytes *)
RECURSIVE Decimal(_)
Decimal(n) == IF n < 10 THEN <<48 + n>> ELSE Decimal(n \div 10) \o <<48 + (n % 10)>>

Min(a, b) == IF a < b THEN a ELSE b

RECURSIVE SeqsUpTo(_, _)
SeqsUpTo(S, n) ==
  IF n = 0 THEN {<<>>}
  ELSE LET shorter == SeqsUpTo(S, n - 1)
       IN shorter \cup {Append(s, x) : s \in shorter, x \in S}

Destinations == SeqsUpTo(Names, MaxDepth) \ {<<>>}

----------------------------------------------------------------------------
(* isofs writer/lba.rs *)

LbaAllocator_new(ss, start_lba) == [sector_size |-> ss, next_lba |-> start_lba]

(* allocate rounding the size down instead of up *)
allocate_floor(a, size) ==
  LET lba == a.next_lba
      sectors == size \div a.sector_size
  IN [lba |-> lba, allocator |-> [a EXCEPT !.next_lba = @ + sectors]]

allocate(a, size) ==
  LET lba == a.next_lba
      sectors == (size + a.sector_size - 1) \div a.sector_size
  IN [lba |-> lba, allocator |-> [a EXCEPT !.next_lba = @ + sectors]]

(* isopod layout.rs *)

layout_LbaAllocator_new(ss, start_lba) ==
  [sector_size |-> ss, next_lba |-> start_lba, allocations |-> {}]

allocate_sectors(a, size_in_sectors) ==
  LET allocated_lba == a.next_lba
  IN [lba |-> allocated_lba,
      allocator |-> [a EXCEPT
        !.allocations = {e \in @ : e[1] # allocated_lba} \cup {<<allocated_lba, size_in_sectors>>},
        !.next_lba = @ + size_in_sectors]]

layout_allocate(a, size) ==
  LET size_in_sectors == (size + a.sector_size - 1) \div a.sector_size
  IN allocate_sectors(a, size_in_sectors)

----------------------------------------------------------------------------
(* isofs writer/fs.rs: the file tree *)

FileEntry_new(name, source) ==
  [kind |-> "File", name |-> name, source |-> source, extent_lba |-> None, entries |-> <<>>]

DirectoryEntry(name, entries) ==
  [kind |-> "Directory", name |-> name, source |-> None, extent_lba |-> None,
   entries |-> entries]

find_mut(entries, name) ==
  IF \E i \in 1..Len(entries) : entries[i].name = name
  THEN CHOOSE i \in 1..Len(entries) :
         /\ entries[i].name = name
         /\ \A j \in 1..(i - 1) : entries[j].name # name
  ELSE 0

RECURSIVE upsert(_, _)
RECURSIVE upsert_each(_, _)

upsert(entries, entry) ==
  LET i == find_mut(entries, entry.name)
  IN IF i # 0 /\ entries[i].kind = "File" /\ entry.kind = "File"
       THEN [entries EXCEPT ![i] = entry]
     ELSE IF i # 0 /\ entries[i].kind = "Directory" /\ entry.kind = "Directory"
       THEN [entries EXCEPT ![i].entries = upsert_each(@, entry.entries)]
     ELSE Append(entries, entry)

upsert_each(entries, incoming) ==
  IF incoming = <<>> THEN entries
  ELSE upsert_each(upsert(entries, Head(incoming)), Tail(incoming))

(* upsert_file forgetting the parent components *)
nest_flat(tail, components, k) == tail

RECURSIVE nest(_, _, _)
nest(tail, components, k) ==
  IF k = 0 THEN tail
  ELSE nest(DirectoryEntry(components[k], <<tail>>), components, k - 1)

upsert_file(root_entries, destination, source) ==
  LET tail == FileEntry_new(destination[Len(destination)], source)
  IN upsert(root_entries, nest(tail, destination, Len(destination) - 1))

----------------------------------------------------------------------------
(* isofs writer/fs.rs: directory records of the tree's entries *)

RootDirectory == [kind |-> "Root", name |-> "", source |-> None, extent_lba |-> None,
                  entries |-> <<>>]

descriptor_length(entry) ==
  IF entry.kind = "Root" THEN 34
  ELSE (33 + (Len(entry.name) % U8) + (IF Len(entry.name) % 2 = 0 THEN 1 ELSE 0)) % U8

RECURSIVE sum_lengths(_, _)
sum_lengths(entries, i) ==
  IF i > Len(entries) THEN 0
  ELSE descriptor_length(entries[i]) + sum_lengths(entries, i + 1)

data_length(entry) ==
  IF entry.kind = "File" THEN SourceLen(entry.source)
  ELSE sum_lengths(entry.entries, 1)

from_bytes_truncated(name) ==
  IF Len(name) <= FileIdentifierLength THEN name
  ELSE SubSeq(name, 1, FileIdentifierLength)

descriptor(entry) ==
  [length |-> descriptor_length(entry),
   extent_location |-> IF entry.extent_lba = None THEN 0 ELSE entry.extent_lba,
   data_length |-> data_length(entry),
   file_flags |-> IF entry.kind = "File" THEN 0 ELSE 2,
   volume_sequence_number |-> 1,
   file_identifier_length |-> IF entry.kind = "Root" THEN 1 ELSE Len(entry.name) % U8,
   file_identifier |-> from_bytes_truncated(entry.name)]

(* isofs serialize.rs: both depend on the identifier's array length only *)

FileIdentifier_extent == FileIdentifierLength

DirectoryRecord_extent(record) ==
  33 + FileIdentifier_extent + (FileIdentifier_extent % 2)

----------------------------------------------------------------------------
(* isofs writer/fs.rs: the Assign-LBAs pass *)

(* assign_extent_lba leaving the allocator's cursor where it was *)
assign_extent_lba_stale(entry, a) ==
  LET r == allocate(a, descriptor(entry).data_length)
  IN [entry |-> [entry EXCEPT !.extent_lba = r.lba], allocator |-> a]

assign_extent_lba(entry, a) ==
  LET r == allocate(a, descriptor(entry).data_length)
  IN [entry |-> [entry EXCEPT !.extent_lba = r.lba], allocator |-> r.allocator]

RECURSIVE assign_extent_lbas(_, _)
RECURSIVE assign_entries(_, _, _)

assign_extent_lbas(dir, a) ==
  LET r == allocate(a, descriptor(dir).data_length)
      rest == assign_entries(dir.entries, 1, r.allocator)
  IN [entry |-> [dir EXCEPT !.extent_lba = r.lba, !.entries = rest.entries],
      allocator |-> rest.allocator]

assign_entries(entries, i, a) ==
  IF i > Len(entries) THEN [entries |-> entries, allocator |-> a]
  ELSE LET own == assign_extent_lba(entries[i], a)
           sub == IF own.entry.kind = "Directory"
                  THEN assign_extent_lbas(own.entry, own.allocator)
                  ELSE own
       IN assign_entries([entries EXCEPT ![i] = sub.entry], i + 1, sub.allocator)

----------------------------------------------------------------------------
(* isofs writer/sector.rs and writer/mod.rs: what reaches the sink *)

NoRecord == [length |-> 0, extent_location |-> 0, data_length |-> 0, file_flags |-> 0,
             volume_sequence_number |-> 0, file_identifier_length |-> 0,
             file_identifier |-> ""]

WriteEvent(kind, offset, len, id, record, source) ==
  [kind |-> kind, offset |-> offset, len |-> len, id |-> id, record |-> record,
   source |-> source]

SectorWriter_new(sector_offset, ss) ==
  [sector_ix |-> sector_offset, sector_size |-> ss, bytes_offset |-> 0]

(* write_aligned never moving on to the next sector *)
write_aligned_unaligned(sw, io, buf_len, id, record) ==
  LET len == Min(buf_len, sw.sector_size)
      at == sw.sector_ix * sw.sector_size + sw.bytes_offset
  IN [sw |-> [sw EXCEPT !.bytes_offset = @ + len],
      io |-> [sink |-> Append(io.sink, WriteEvent("record", at, len, id, record, None)),
              position |-> at + len]]

(* io is the sink: the writes received and the stream position *)
write_aligned(sw, io, buf_len, id, record) ==
  LET len == Min(buf_len, sw.sector_size)
      moved == sw.bytes_offset + len > sw.sector_size
      sw1 == IF moved THEN [sw EXCEPT !.sector_ix = @ + 1, !.bytes_offset = 0] ELSE sw
      at == sw1.sector_ix * sw1.sector_size + sw1.bytes_offset
  IN [sw |-> [sw1 EXCEPT !.bytes_offset = @ + len],
      io |-> [sink |-> Append(io.sink, WriteEvent("record", at, len, id, record, None)),
              position |-> at + len]]

write_file_entry(io, file_entry, id, ss) ==
  LET at == file_entry.extent_lba * ss
      len == SourceLen(file_entry.source)
  IN IF len = 0 THEN [io EXCEPT !.position = at]
     ELSE [sink |-> Append(io.sink, WriteEvent("content", at, len, id, NoRecord, file_entry.source)),
           position |-> at + len]

RECURSIVE write_directory_entry(_, _, _, _)
RECURSIVE write_records(_, _, _, _, _)
RECURSIVE write_entries(_, _, _, _, _)

write_entry(io, entry, id, ss) ==
  IF entry.kind = "File" THEN write_file_entry(io, entry, id, ss)
  ELSE write_directory_entry(io, entry, id, ss)

write_records(sw, io, entries, i, id) ==
  IF i > Len(entries) THEN io
  ELSE LET entry_descriptor == descriptor(entries[i])
           w == write_aligned(sw, io, DirectoryRecord_extent(entry_descriptor),
                              Append(id, i), entry_descriptor)
       IN write_records(w.sw, w.io, entries, i + 1, id)

write_entries(io, entries, i, id, ss) ==
  IF i > Len(entries) THEN io
  ELSE write_entries(write_entry(io, entries[i], Append(id, i), ss), entries, i + 1, id, ss)

write_directory_entry(io, directory_entry, id, ss) ==
  LET sector_writer == SectorWriter_new(directory_entry.extent_lba, ss)
      recorded == write_records(sector_writer, io, directory_entry.entries, 1, id)
  IN write_entries(recorded, directory_entry.entries, 1, id, ss)

(* volume.rs PrimaryVolume::descriptor with fs.rs RootDirectory::root_descriptor *)
PrimaryVolume_descriptor(root) ==
  [NoRecord EXCEPT !.length = 34,
                   !.extent_location = IF root.extent_lba = None THEN 0 ELSE root.extent_lba,
                   !.data_length = data_length(root),
                   !.file_flags = 2,
                   !.volume_sequence_number = 1]

(* spec.rs: a fixed-length character field, [u8; LENGTH] with the bytes that
   follow the copied ones left zero *)
ACharacters_from_bytes_truncated(bytes, LENGTH) ==
  [bytes |-> SubSeq(bytes, 1, Min(LENGTH, Len(bytes))), LENGTH |-> LENGTH]

DCharacters_from_bytes_truncated(bytes, LENGTH) ==
  [bytes |-> SubSeq(bytes, 1, Min(LENGTH, Len(bytes))), LENGTH |-> LENGTH]

(* byte i of the array, from 0 *)
Characters_byte(cs, i) == IF i < Len(cs.bytes) THEN cs.bytes[i + 1] ELSE 0

(* the literals of PrimaryVolume::descriptor: "LINUX", "abc", "hi noxie (:",
   "def", "ghi", "jkl", "mno", "pqr" *)
Literals ==
  [system |-> <<76, 73, 78, 85, 88>>, volume_set |-> <<97, 98, 99>>, publisher |-> <<104, 105, 32, 110, 111, 120, 105, 101, 32, 40, 58>>, data_preparer |-> <<100, 101, 102>>,
   application |-> <<103, 104, 105>>, copyright |-> <<106, 107, 108>>, abstract |-> <<109, 110, 111>>, bibliographic |-> <<112, 113, 114>>]

(* volume.rs PrimaryVolume::descriptor: the descriptor of a volume with the
   given volume_id whose root has the given record *)
PrimaryVolumeDescriptor(volume_id, ss, root_directory_record) ==
  [standard_identifier |-> CD001,
   version |-> 1,
   system_identifier |-> ACharacters_from_bytes_truncated(Literals.system, 32),
   volume_identifier |-> DCharacters_from_bytes_truncated(volume_id, 32),
   volume_space_size |-> 0,
   volume_set_size |-> 0,
   volume_sequence_number |-> 0,
   logical_block_size |-> ss % 65536,
   path_table_size |-> 0,
   type_l_path_table_location |-> root_directory_record.extent_location,
   optional_type_l_path_table_location |-> 0,
   type_m_path_table_location |-> 0,
   optional_type_m_path_table_location |-> 0,
   root_directory_record |-> root_directory_record,
   volume_set_identifier |-> DCharacters_from_bytes_truncated(Literals.volume_set, 128),
   publisher_identifier |-> ACharacters_from_bytes_truncated(Literals.publisher, 128),
   data_preparer_identifier |-> ACharacters_from_bytes_truncated(Literals.data_preparer, 128),
   application_identifier |-> ACharacters_from_bytes_truncated(Literals.application, 128),
   copyright_file_identifier |-> DCharacters_from_bytes_truncated(Literals.copyright, 37),
   abstract_file_identifier |-> DCharacters_from_bytes_truncated(Literals.abstract, 37),
   bibliographic_file_identifier |-> DCharacters_from_bytes_truncated(Literals.bibliographic, 37),
   file_structure_version |-> 1]

(* isofs-cli main.rs: the volume_id of the volume the command line tool adds,
   "TEST_ISO9660" *)
TEST_ISO9660 == <<84, 69, 83, 84, 95, 73, 83, 79, 57, 54, 54, 48>>

RECURSIVE write_volumes(_, _, _, _, _)
write_volumes(vols, i, a, io, ss) ==
  IF i > Len(vols) THEN [volumes |-> vols, io |-> io, allocator |-> a]
  ELSE LET assigned == assign_extent_lbas(vols[i], a)
           pvd == WriteEvent("descriptor", io.position, DescriptorExtent, <<i>>,
                             PrimaryVolumeDescriptor(TEST_ISO9660, ss,
                               PrimaryVolume_descriptor(assigned.entry)), None)
           io1 == [sink |-> Append(io.sink, pvd), position |-> io.position + DescriptorExtent]
           io2 == write_directory_entry(io1, assigned.entry, <<i>>, ss)
       IN write_volumes([vols EXCEPT ![i] = assigned.entry], i + 1, assigned.allocator, io2, ss)

IsoWriter_write(vols, ss) ==
  write_volumes(vols, 1, LbaAllocator_new(ss, Len(vols) + 16),
                [sink |-> <<>>, position |-> 0], ss)

----------------------------------------------------------------------------
(* isofs serialize.rs: the bytes of what was written, where the model follows
   them. Unmodelled stands for a byte whose value the model does not follow. *)

Unmodelled == None

LeByte(value, j) == (value \div (256 ^ j)) % 256

(* the bytes of a file: never zero *)
ContentByte(source, k) == ((source * 7 + k) % 251) + 1

(* byte j of the little-endian half and of the big-endian half of a field
   of the given width *)
to_le_bytes(value, width, j) == LeByte(value, j)
to_be_bytes_little(value, width, j) == LeByte(value, j)
to_be_bytes(value, width, j) == LeByte(value, width - 1 - j)

RootDirectoryRecord_serialize(record, k) ==
  CASE k = 0 -> 34
    [] k = 1 -> 0
    [] k \in 2..5 -> to_le_bytes(record.extent_location, 4, k - 2)
    [] k \in 6..9 -> to_be_bytes(record.extent_location, 4, k - 6)
    [] k \in 10..13 -> to_le_bytes(record.data_length, 4, k - 10)
    [] k \in 14..17 -> to_be_bytes(record.data_length, 4, k - 14)
    [] k = 25 -> record.file_flags
    [] k \in 26..27 -> 0
    [] k \in 28..29 -> to_le_bytes(record.volume_sequence_number, 2, k - 28)
    [] k \in 30..31 -> to_be_bytes(record.volume_sequence_number, 2, k - 30)
    [] k \in 32..33 -> 0
    [] OTHER -> Unmodelled

PrimaryVolumeDescriptor_serialize(record, k) ==
  CASE k = 0 -> 1
    [] k \in 1..5 -> record.standard_identifier[k]
    [] k = 6 -> record.version
    [] k = 7 -> 0
    [] k \in 8..39 -> Characters_byte(record.system_identifier, k - 8)
    [] k \in 40..71 -> Characters_byte(record.volume_identifier, k - 40)
    [] k \in 72..79 -> 0
    [] k \in 80..83 -> to_le_bytes(record.volume_space_size, 4, k - 80)
    [] k \in 84..87 -> to_be_bytes(record.volume_space_size, 4, k - 84)
    [] k \in 88..119 -> 0
    [] k \in 120..121 -> to_le_bytes(record.volume_set_size, 2, k - 120)
    [] k \in 122..123 -> to_be_bytes(record.volume_set_size, 2, k - 122)
    [] k \in 124..125 -> to_le_bytes(record.volume_sequence_number, 2, k - 124)
    [] k \in 126..127 -> to_be_bytes(record.volume_sequence_number, 2, k - 126)
    [] k \in 128..129 -> to_le_bytes(record.logical_block_size, 2, k - 128)
    [] k \in 130..131 -> to_be_bytes(record.logical_block_size, 2, k - 130)
    [] k \in 132..135 -> to_le_bytes(record.path_table_size, 4, k - 132)
    [] k \in 136..139 -> to_be_bytes(record.path_table_size, 4, k - 136)
    [] k \in 140..143 -> to_le_bytes(record.type_l_path_table_location, 4, k - 140)
    [] k \in 144..147 -> to_le_bytes(record.optional_type_l_path_table_location, 4, k - 144)
    [] k \in 148..151 -> to_be_bytes(record.type_m_path_table_location, 4, k - 148)
    [] k \in 152..155 -> to_be_bytes(record.optional_type_m_path_table_location, 4, k - 152)
    [] k \in 156..189 -> RootDirectoryRecord_serialize(record.root_directory_record, k - 156)
    [] k \in 190..317 -> Characters_byte(record.volume_set_identifier, k - 190)
    [] k \in 318..445 -> Characters_byte(record.publisher_identifier, k - 318)
    [] k \in 446..573 -> Characters_byte(record.data_preparer_identifier, k - 446)
    [] k \in 574..701 -> Characters_byte(record.application_identifier, k - 574)
    [] k \in 702..738 -> Characters_byte(record.copyright_file_identifier, k - 702)
    [] k \in 739..775 -> Characters_byte(record.abstract_file_identifier, k - 739)
    [] k \in 776..812 -> Characters_byte(record.bibliographic_file_identifier, k - 776)
    [] k = 881 -> record.file_structure_version
    [] k = 882 -> 0
    [] k \in 883..2047 -> 0
    [] OTHER -> Unmodelled

DirectoryRecord_serialize(record, k) ==
  CASE k = 0 -> record.length
    [] k = 1 -> 0
    [] k \in 2..5 -> to_le_bytes(record.extent_location, 4, k - 2)
    [] k \in 6..9 -> to_be_bytes(record.extent_location, 4, k - 6)
    [] k \in 10..13 -> to_le_bytes(record.data_length, 4, k - 10)
    [] k \in 14..17 -> to_be_bytes(record.data_length, 4, k - 14)
    [] k = 25 -> record.file_flags
    [] k \in 26..27 -> 0
    [] k \in 28..29 -> to_le_bytes(record.volume_sequence_number, 2, k - 28)
    [] k \in 30..31 -> to_be_bytes(record.volume_sequence_number, 2, k - 30)
    [] k = 32 -> 0
    [] k >= 33 + Len(record.file_identifier) -> 0
    [] OTHER -> Unmodelled

PayloadByte(e, k) ==
  CASE e.kind = "descriptor" -> PrimaryVolumeDescriptor_serialize(e.record, k)
    [] e.kind = "record" -> DirectoryRecord_serialize(e.record, k)
    [] OTHER -> ContentByte(e.source, k)

(* the image a sink holds: the latest write that covers a byte decides it,
   a byte never written is zero *)
Covering(log, x) == {i \in 1..Len(log) : log[i].offset <= x /\ x < log[i].offset + log[i].len}

ImageByte(log, x) ==
  LET covering == Covering(log, x)
  IN IF covering = {} THEN 0
     ELSE LET last == CHOOSE i \in covering : \A j \in covering : j <= i
          IN PayloadByte(log[last], x - log[last].offset)

ImageU32(log, x, value) ==
  /\ \A j \in 0..3 : ImageByte(log, x + j) = LeByte(value, j)
  /\ \A j \in 0..3 : ImageByte(log, x + 4 + j) = LeByte(value, 3 - j)

----------------------------------------------------------------------------
(* isofs serialize.rs: IsoSerialize::serialize on a value and an output      *)
(* buffer. A value is a record of its type and its fields; a buffer is its   *)
(* length, the byte it was filled with and the value written to it, if any.  *)

RootDirectoryRecordExtent == 34

Value(type, record) == [type |-> type, record |-> record]

NoValue == Value("None", NoRecord)

Buffer(len, fill) == [len |-> len, fill |-> fill, written |-> NoValue]

SupplementaryVolumeDescriptor_serialize(record, k) ==
  CASE k = 0 -> 2
    [] k \in 1..5 -> record.standard_identifier[k]
    [] k = 6 -> record.version
    [] k = 7 -> record.volume_flags
    [] k \in 72..79 -> 0
    [] k \in 80..83 -> to_le_bytes(record.volume_space_size, 4, k - 80)
    [] k \in 84..87 -> to_be_bytes(record.volume_space_size, 4, k - 84)
    [] k \in 88..119 -> 0
    [] k \in 120..121 -> to_le_bytes(record.volume_set_size, 2, k - 120)
    [] k \in 122..123 -> to_be_bytes(record.volume_set_size, 2, k - 122)
    [] k \in 124..125 -> to_le_bytes(record.volume_sequence_number, 2, k - 124)
    [] k \in 126..127 -> to_be_bytes(record.volume_sequence_number, 2, k - 126)
    [] k \in 128..129 -> to_le_bytes(record.logical_block_size, 2, k - 128)
    [] k \in 130..131 -> to_be_bytes(record.logical_block_size, 2, k - 130)
    [] k \in 132..135 -> to_le_bytes(record.path_table_size, 4, k - 132)
    [] k \in 136..139 -> to_be_bytes(record.path_table_size, 4, k - 136)
    [] k \in 156..189 -> RootDirectoryRecord_serialize(record.root_directory_record, k - 156)
    [] OTHER -> Unmodelled

VolumeDescriptorSetTerminator_serialize(record, k) ==
  CASE k = 0 -> 255
    [] k \in 1..5 -> CD001[k]
    [] k = 6 -> 1
    [] OTHER -> 0

(* format!("{:04}", year): the decimal digits, filled with 0 to four *)
format_04(n) ==
  LET digits == Decimal(n)
  IN IF Len(digits) >= 4 THEN digits
     ELSE [i \in 1..(4 - Len(digits)) |-> 48] \o digits

EL_TORITO_SPECIFICATION ==
  <<69, 76, 32, 84, 79, 82, 73, 84, 79, 32, 83, 80, 69, 67, 73, 70, 73, 67, 65, 84, 73, 79, 78>>

DigitsYearExtent == 4
ElToritoEntryExtent == 32

extent(value) ==
  CASE value.type = "DirectoryRecord" -> DirectoryRecord_extent(value.record)
    [] value.type = "RootDirectoryRecord" -> RootDirectoryRecordExtent
    [] value.type = "DigitsYear" -> DigitsYearExtent
    [] value.type \in {"ElToritoSectionEntry", "ElToritoSectionEntryExtension"} ->
         ElToritoEntryExtent
    [] OTHER -> DescriptorExtent

(* the copy_from_slice calls of serialize_unchecked whose two lengths are not
   the same by their types: <<length of the slice of out, length of the
   source>>, with out[a..=b] a slice of b - a + 1 bytes *)
copies(value) ==
  CASE value.type = "ElToritoSectionEntry" ->
         {<<31 - 13 + 1, Len(value.record.vendor_selection_criteria)>>}
    [] value.type = "ElToritoSectionEntryExtension" ->
         {<<31 - 2 + 1, Len(value.record.vendor_unique_selection_criteria)>>}
    [] value.type = "ElToritoBootRecordVolumeDescriptor" ->
         {<<26 - 7 + 1, Len(EL_TORITO_SPECIFICATION)>>, <<74 - 47 + 1, 4>>}
    [] OTHER -> {}

(* the number of bytes serialize_unchecked writes from the start of out *)
written_len(value) ==
  IF value.type = "DigitsYear" THEN Len(format_04(value.record.year)) ELSE extent(value)

(* serialize_unchecked panics: copy_from_slice on slices of different
   lengths, or a range that ends beyond out *)
panics(value, out) ==
  \/ \E c \in copies(value) : c[1] # c[2]
  \/ written_len(value) > out.len

serialize_unchecked(value, k) ==
  CASE value.type = "PrimaryVolumeDescriptor" -> PrimaryVolumeDescriptor_serialize(value.record, k)
    [] value.type = "SupplementaryVolumeDescriptor" ->
         SupplementaryVolumeDescriptor_serialize(value.record, k)
    [] value.type = "VolumeDescriptorSetTerminator" ->
         VolumeDescriptorSetTerminator_serialize(value.record, k)
    [] value.type = "DirectoryRecord" -> DirectoryRecord_serialize(value.record, k)
    [] value.type = "DigitsYear" -> format_04(value.record.year)[k + 1]
    [] value.type = "RootDirectoryRecord" -> RootDirectoryRecord_serialize(value.record, k)
    [] OTHER -> Unmodelled

(* serialize naming the buffer's length as the expected one *)
serialize_swapped(value, out) ==
  IF out.len < extent(value)
  THEN [result |-> [kind |-> "OutputBufferTooSmall", expected |-> out.len,
                    actual |-> extent(value)],
        out |-> out]
  ELSE IF panics(value, out)
  THEN [result |-> [kind |-> "panic", expected |-> extent(value), actual |-> out.len],
        out |-> out]
  ELSE [result |-> [kind |-> "Ok", expected |-> extent(value), actual |-> extent(value)],
        out |-> [out EXCEPT !.written = value]]

(* Ok carries the extent in both fields; a panic ends the call and what the
   buffer holds then is seen by no one *)
serialize(value, out) ==
  IF out.len < extent(value)
  THEN [result |-> [kind |-> "OutputBufferTooSmall", expected |-> extent(value),
                    actual |-> out.len],
        out |-> out]
  ELSE IF panics(value, out)
  THEN [result |-> [kind |-> "panic", expected |-> extent(value), actual |-> out.len],
        out |-> out]
  ELSE [result |-> [kind |-> "Ok", expected |-> extent(value), actual |-> extent(value)],
        out |-> [out EXCEPT !.written = value]]

(* byte k of a buffer *)
out_byte(out, k) ==
  IF out.written.type # "None" /\ k < written_len(out.written)
  THEN serialize_unchecked(out.written, k)
  ELSE out.fill

----------------------------------------------------------------------------
(* The entries of a tree, each with its place: the indices that lead to it *)

RECURSIVE Descendants(_, _)
Descendants(dir, id) ==
  UNION {{[id |-> Append(id, i), entry |-> dir.entries[i], parent |-> dir]}
          \cup (IF dir.entries[i].kind = "Directory"
                THEN Descendants(dir.entries[i], Append(id, i)) ELSE {})
         : i \in 1..Len(dir.entries)}

VolumeNodes(vols) ==
  UNION {{[id |-> <<v>>, entry |-> vols[v], parent |-> vols[v]]} \cup Descendants(vols[v], <<v>>)
         : v \in 1..Len(vols)}

CeilDiv(a, b) == IF a % b = 0 THEN a \div b ELSE a \div b + 1

ExtentSectors(entry, ss) == CeilDiv(data_length(entry), ss)

Parent(id) == SubSeq(id, 1, Len(id) - 1)

(* lexicographic order of places: the depth-first order of the tree *)
RECURSIVE LexLeq(_, _)
LexLeq(a, b) ==
  IF a = <<>> THEN TRUE
  ELSE IF b = <<>> THEN FALSE
  ELSE IF Head(a) # Head(b) THEN Head(a) < Head(b)
  ELSE LexLeq(Tail(a), Tail(b))

----------------------------------------------------------------------------
(* isopod lib.rs: Iso::scan_volumes over a storage of whole sectors        *)
(* followed by an optional partial one                                     *)

Sector(type, wellformed) == [type |-> type, wellformed |-> wellformed]

Sectors == {Sector(t, TRUE) : t \in TypeBytes} \cup {Sector(1, FALSE)}

Storages ==
  [short : {FALSE}, sectors : SeqsUpTo(Sectors, MaxSectors), partial : TypeBytes \cup {None}]
  \cup {[short |-> TRUE, sectors |-> <<>>, partial |-> None]}

storage_len(st) ==
  Len(st.sectors) * VOLUME_DESCRIPTOR_SIZE + (IF st.partial = None THEN 0 ELSE VOLUME_DESCRIPTOR_SIZE - 1)

(* first byte of the descriptor that starts at a position, None past the end *)
storage_byte(st, pos) ==
  IF pos >= storage_len(st) THEN None
  ELSE IF pos \div VOLUME_DESCRIPTOR_SIZE < Len(st.sectors)
    THEN st.sectors[pos \div VOLUME_DESCRIPTOR_SIZE + 1].type
  ELSE st.partial

VolumeDescriptorType_from_u8(value) ==
  CASE value = 0 -> "BootRecord"
    [] value = 1 -> "PrimaryVolumeDescriptor"
    [] value = 2 -> "SupplementaryVolumeDescriptor"
    [] value = 3 -> "VolumePartitionDescriptor"
    [] value = 255 -> "VolumeDescriptorSetTerminator"
    [] OTHER -> "Other"

(* parse.rs, Parse for spec::VolumeDescriptor: "Ok", the "Err" of the
   descriptor's own parser or "unimplemented" *)
spec_VolumeDescriptor_parse(sector) ==
  LET type == VolumeDescriptorType_from_u8(sector.type)
  IN IF type \in {"PrimaryVolumeDescriptor", "SupplementaryVolumeDescriptor", "BootRecord"}
     THEN IF sector.wellformed THEN "Ok" ELSE "Err"
     ELSE IF type = "VolumeDescriptorSetTerminator" THEN "Ok"
     ELSE "unimplemented"

(* VolumeDescriptor::parse: "Ok", "Err" or "todo" *)
VolumeDescriptor_parse(sector) ==
  IF VolumeDescriptorType_from_u8(sector.type) = "PrimaryVolumeDescriptor"
  THEN IF sector.wellformed THEN "Ok" ELSE "Err"
  ELSE "todo"

----------------------------------------------------------------------------
(* isopod directory.rs and utils.rs: the reader of directory extents. Names   *)
(* and identifiers are sequences of bytes.                                    *)

SECTOR_SIZE == 2048

DirectoryFlag == 2

Dot == <<46>>
DotDot == <<46, 46>>
UNKNOWN_ == <<85, 78, 75, 78, 79, 87, 78, 95>>

(* utils::parse_iso_string: the bytes before the first 0x00 or 0x20 *)
parse_iso_string(buffer) ==
  LET stops == {i \in 1..Len(buffer) : buffer[i] = 0 \/ buffer[i] = 32}
      end == IF stops = {} THEN Len(buffer)
             ELSE (CHOOSE i \in stops : \A j \in stops : i <= j) - 1
  IN SubSeq(buffer, 1, end)

ends_with(raw_name, suffix) ==
  /\ Len(raw_name) >= Len(suffix)
  /\ SubSeq(raw_name, Len(raw_name) - Len(suffix) + 1, Len(raw_name)) = suffix

(* a directory record as it lies in a directory extent *)
Record(flags, file_identifier, extent_location, extent_size) ==
  [length |-> 33 + Len(file_identifier) + (IF Len(file_identifier) % 2 = 0 THEN 1 ELSE 0),
   flags |-> flags,
   extent_location |-> extent_location,
   extent_size |-> extent_size,
   file_id_length |-> Len(file_identifier),
   file_identifier |-> file_identifier]

(* the zero bytes that fill a sector after its last record *)
Padding == [length |-> 0, flags |-> 0, extent_location |-> 0, extent_size |-> 0,
            file_id_length |-> 0, file_identifier |-> <<>>]

NoEntry == [some |-> FALSE, name |-> <<>>, flags |-> 0, extent_location |-> 0, extent_size |-> 0]

is_directory(entry) == (entry.flags \div DirectoryFlag) % 2 = 1

(* DirectoryEntry::parse_from_buffer of the record_length bytes of a record *)
parse_from_buffer(record) ==
  IF record.length < 33 THEN NoEntry
  ELSE IF 33 + record.file_id_length > record.length THEN NoEntry
  ELSE LET raw_name == record.file_identifier
           name == IF is_directory(record) /\ record.file_id_length = 1
                   THEN CASE raw_name[1] = 0 -> Dot
                          [] raw_name[1] = 1 -> DotDot
                          [] OTHER -> UNKNOWN_ \o Decimal(raw_name[1])
                   ELSE IF ends_with(raw_name, <<59, 49>>)
                        THEN parse_iso_string(SubSeq(raw_name, 1, Len(raw_name) - 2))
                        ELSE parse_iso_string(raw_name)
       IN [some |-> TRUE, name |-> name, flags |-> record.flags,
           extent_location |-> record.extent_location, extent_size |-> record.extent_size]

(* an entry the loop of read_from_iso passes over without looking at its
   kind, keeping "." and ".." *)
skipped_none(entry) == ~entry.some

(* the test for a self-referential directory answering that none is *)
self_referential_never(entry, location) == FALSE

(* `entry.extent_location() != location`, negated *)
self_referential(entry, location) == entry.extent_location = location

(* `if let Some(entry)` and `entry.name() != "." && entry.name() != ".."` *)
skipped(entry) == ~entry.some \/ entry.name = Dot \/ entry.name = DotDot

Directory_new(name) ==
  [name |-> name, directories |-> <<>>, files |-> <<>>, sector_location |-> None, size |-> None]

File_new(name, content) ==
  [name |-> name, content |-> content, sector_location |-> None, size |-> None]

(* HashMap::insert *)
insert(map, key, value) ==
  [k \in DOMAIN map \cup {key} |-> IF k = key THEN value ELSE map[k]]

(* seek to a sector and read_exact: fails when the bytes pass the end of the image *)
read_exact(img, location, size) ==
  location * SECTOR_SIZE + size <= (Len(img) + 1) * SECTOR_SIZE

(* the bytes File::new receives *)
file_buffer(location, size) == <<location, size>>

RECURSIVE record_offset(_, _)
record_offset(records, i) ==
  IF i = 1 THEN 0 ELSE record_offset(records, i - 1) + records[i - 1].length

(* the record that starts at an offset of the buffer read from a location;
   a record of length 0 where the sector's padding lies *)
record_at(img, location, offset) ==
  LET records == img[location + offset \div SECTOR_SIZE]
      starts == {i \in 1..Len(records) : record_offset(records, i) = offset % SECTOR_SIZE}
  IN IF starts = {} THEN Padding
     ELSE records[CHOOSE i \in starts : TRUE]

(* the checks and the read that read_from_iso makes before its loop *)
read_from_iso_enter(img, entry) ==
  IF ~is_directory(entry) THEN "InvalidFormat"
  ELSE IF entry.extent_location = 0 \/ entry.extent_size = 0 THEN "InvalidFormat"
  ELSE IF entry.extent_size > 10 * 1024 * 1024 THEN "SizeLimit"
  ELSE IF ~read_exact(img, entry.extent_location, entry.extent_size) THEN "Io"
  ELSE "Ok"

Frame(entry) ==
  [entry |-> entry,
   offset |-> 0,
   directory |-> [Directory_new(entry.name) EXCEPT !.sector_location = entry.extent_location,
                                                  !.size = entry.extent_size]]

(* the loop condition and the break at the head of the loop body *)
loop_ends(img, frame) ==
  \/ frame.offset >= frame.directory.size
  \/ record_at(img, frame.directory.sector_location, frame.offset).length = 0
  \/ frame.offset + 1 >= frame.directory.size

(* Images: the root directory's extent starts at LBA 1 and has up to two
   sectors, LBA 3 holds a directory, LBA 4 file content; nothing lies at
   LBA 9. The "." record of the root names the root, its ".." record the
   directory at LBA 3. *)

Lbas == [root |-> 1, sub |-> 3, data |-> 4, missing |-> 9]

Records ==
  { Record(DirectoryFlag, <<0>>, Lbas.root, SECTOR_SIZE),
    Record(DirectoryFlag, <<1>>, Lbas.sub, SECTOR_SIZE),
    Record(0, <<72, 59, 49>>, Lbas.data, 10),
    Record(0, <<70, 59, 52, 50>>, Lbas.data, 10),
    Record(0, <<1>>, Lbas.data, 10),
    Record(0, <<71, 59, 49>>, Lbas.missing, 10),
    Record(DirectoryFlag, <<68, 68>>, Lbas.sub, SECTOR_SIZE),
    Record(DirectoryFlag, <<69, 69>>, Lbas.missing, SECTOR_SIZE),
    Record(DirectoryFlag, <<90, 90>>, 0, SECTOR_SIZE),
    [Record(0, <<75>>, Lbas.data, 10) EXCEPT !.file_id_length = 2],
    Record(DirectoryFlag, <<83, 82>>, Lbas.root, SECTOR_SIZE) }

LaterRecords ==
  { Record(0, <<72, 59, 49>>, Lbas.data, 10),
    Record(0, <<74, 59, 49>>, Lbas.data, 10),
    Record(0, <<71, 59, 49>>, Lbas.missing, 10) }

(* what the directory at LBA 3 may hold: a file, a directory record that
   names the root and one that names the directory itself *)
SubRecords ==
  { Record(0, <<72, 59, 49>>, Lbas.data, 10),
    Record(DirectoryFlag, <<82, 82>>, Lbas.root, SECTOR_SIZE),
    Record(DirectoryFlag, <<83, 83>>, Lbas.sub, SECTOR_SIZE) }

Images ==
  {<<first, second, sub, <<>>>> :
     first \in SeqsUpTo(Records, MaxRecords),
     second \in SeqsUpTo(LaterRecords, 1),
     sub \in SeqsUpTo(SubRecords, 1)}

RootSizes == {40, SECTOR_SIZE, 2 * SECTOR_SIZE, 5 * SECTOR_SIZE}

RootEntries ==
  {[some |-> TRUE, name |-> <<>>, flags |-> DirectoryFlag, extent_location |-> Lbas.root,
    extent_size |-> size] : size \in RootSizes}

----------------------------------------------------------------------------
(* isopod iso.rs, directory.rs and volume.rs: the Iso of IsoBuilder::new(), *)
(* its add_* calls, write_to and read_from. A path is the sequence of its   *)
(* components and a component a sequence of bytes; ".." is                  *)
(* Component::ParentDir. An image is a map from a sector to what was        *)
(* written there, the sectors never written being zero; every extent of the *)
(* inputs below fits one sector.                                            *)

MAX_PATH_DEPTH == 8
MAX_FILENAME_LENGTH_LEVEL_1 == 8
MAX_EXTENSION_LENGTH_LEVEL_1 == 3

ROOT == <<82, 79, 79, 84>>

FirstDataSector == 20

MaxOf(S) == CHOOSE x \in S : \A y \in S : y <= x

(* the orders a HashMap may yield its keys in *)
Orders(S) == {s \in [1..Cardinality(S) -> S] : \A x \in S : \E i \in 1..Cardinality(S) : s[i] = x}

unwrap_or(option, default) == IF option = None THEN default ELSE option

is_ascii_alphanumeric(c) == c \in 48..57 \/ c \in 65..90 \/ c \in 97..122

to_ascii_uppercase(c) == IF c \in 97..122 THEN c - 32 ELSE c

(* Component::Normal *)
IsNormal(component) == component # DotDot

Normal(path) == SelectSeq(path, IsNormal)

(* Path::parent, Path::file_name being None, Path::file_name *)
parent(path) == SubSeq(path, 1, Len(path) - 1)

has_file_name(path) == Len(path) > 0 /\ IsNormal(path[Len(path)])

file_name(path) == path[Len(path)]

(* the checks validate_path makes on one Normal component *)
valid_component(filename) ==
  LET dots == {i \in 1..Len(filename) : filename[i] = 46}
      lengths == IF dots # {}
                 THEN LET dot == CHOOSE i \in dots : \A j \in dots : i <= j
                      IN /\ dot - 1 <= MAX_FILENAME_LENGTH_LEVEL_1
                         /\ Len(filename) - dot <= MAX_EXTENSION_LENGTH_LEVEL_1
                 ELSE Len(filename) <= MAX_FILENAME_LENGTH_LEVEL_1
  IN /\ lengths
     /\ \A i \in 1..Len(filename) :
          is_ascii_alphanumeric(filename[i]) \/ filename[i] = 95 \/ filename[i] = 46

(* Iso::validate_path returning Ok, with neither joliet nor rock_ridge *)
validate_path(path) ==
  /\ Len(path) <= MAX_PATH_DEPTH
  /\ \A i \in 1..Len(path) : IsNormal(path[i]) => valid_component(path[i])

new_directory(name, extent_location, extent_size) ==
  [some |-> TRUE, name |-> name, flags |-> DirectoryFlag,
   extent_location |-> extent_location, extent_size |-> extent_size]

new_file(name, extent_location, extent_size) ==
  [some |-> TRUE, name |-> name, flags |-> 0,
   extent_location |-> extent_location, extent_size |-> extent_size]

iso_file_identifier(entry) ==
  IF is_directory(entry) /\ entry.name = Dot THEN <<0>>
  ELSE IF is_directory(entry) /\ entry.name = DotDot THEN <<1>>
  ELSE LET sanitized_name ==
             [i \in 1..Len(entry.name) |->
                IF is_ascii_alphanumeric(entry.name[i]) \/ entry.name[i] = 95 \/ entry.name[i] = 46
                THEN to_ascii_uppercase(entry.name[i]) ELSE 95]
       IN IF ~is_directory(entry) THEN sanitized_name \o <<59, 49>> ELSE sanitized_name

(* DirectoryEntry::write_to_buffer into a buffer of at least the padded length *)
write_to_buffer(entry) ==
  Record(entry.flags, iso_file_identifier(entry), entry.extent_location, entry.extent_size)

record_size(entry) == write_to_buffer(entry).length

RECURSIVE sum_record_sizes(_)
sum_record_sizes(entries) ==
  IF entries = {} THEN 0
  ELSE LET entry == CHOOSE e \in entries : TRUE
       IN record_size(entry) + sum_record_sizes(entries \ {entry})

create_dot_entry(dir) ==
  new_directory(Dot, unwrap_or(dir.sector_location, 0), unwrap_or(dir.size, 0))

create_dotdot_entry(dir) == new_directory(DotDot, unwrap_or(dir.sector_location, 0), 0)

calculate_size(dir) ==
  record_size(create_dot_entry(dir)) + record_size(create_dotdot_entry(dir))
  + sum_record_sizes({new_directory(dir.directories[n].name, 0, 0) : n \in DOMAIN dir.directories})
  + sum_record_sizes({new_file(dir.files[n].name, 0, 0) : n \in DOMAIN dir.files})

(* File::size *)
File_size(file) == IF file.size = None THEN Len(file.content) ELSE file.size

(* the entries a directory record has for the children that hold a location,
   the keys taken in the given orders *)
child_entries(dir, dir_order, file_order) ==
  LET located_dirs == SelectSeq(dir_order,
                        LAMBDA n : dir.directories[n].sector_location # None
                                   /\ dir.directories[n].size # None)
      located_files == SelectSeq(file_order, LAMBDA n : dir.files[n].sector_location # None)
  IN [i \in 1..Len(located_dirs) |->
        write_to_buffer(new_directory(dir.directories[located_dirs[i]].name,
                                      dir.directories[located_dirs[i]].sector_location,
                                      dir.directories[located_dirs[i]].size))]
     \o [i \in 1..Len(located_files) |->
           write_to_buffer(new_file(dir.files[located_files[i]].name,
                                    dir.files[located_files[i]].sector_location,
                                    File_size(dir.files[located_files[i]])))]

(* Directory::write_directory_record: the records of the one sector it writes *)
write_directory_record(dir, dir_order, file_order) ==
  <<write_to_buffer(create_dot_entry(dir)), write_to_buffer(create_dotdot_entry(dir))>>
  \o child_entries(dir, dir_order, file_order)

RECURSIVE next_sector(_, _)
next_sector(sizes, i) ==
  IF i = 1 THEN FirstDataSector
  ELSE next_sector(sizes, i - 1) + CeilDiv(sizes[i - 1], SECTOR_SIZE)

RECURSIVE write_all(_, _)
write_all(sectors, writes) ==
  IF writes = <<>> THEN sectors
  ELSE write_all(insert(sectors, Head(writes).sector, Head(writes).extent), Tail(writes))

(* Directory::write_to_iso onto the sectors written so far. order names the
   orders the four HashMap iterations take. *)
write_to_iso(self, sectors, order) ==
  LET nd == Len(order.directories)
      nf == Len(order.files)
      sizes == [i \in 1..(nd + nf) |->
                  IF i <= nd THEN calculate_size(self.directories[order.directories[i]])
                  ELSE Len(self.files[order.files[i - nd]].content)]
      updated_dir(i) ==
        [self.directories[order.directories[i]] EXCEPT
           !.sector_location = next_sector(sizes, i), !.size = sizes[i]]
      updated_file(i) ==
        [self.files[order.files[i]] EXCEPT
           !.sector_location = next_sector(sizes, nd + i), !.size = sizes[nd + i]]
      updated == [self EXCEPT
                    !.directories = [n \in DOMAIN self.directories |->
                                       updated_dir(CHOOSE i \in 1..nd : order.directories[i] = n)],
                    !.files = [n \in DOMAIN self.files |->
                                 updated_file(CHOOSE i \in 1..nf : order.files[i] = n)]]
      dir_writes ==
        [i \in 1..nd |->
           [sector |-> next_sector(sizes, i),
            extent |-> [kind |-> "records",
                        records |-> LET dir == updated_dir(i)
                                    IN write_directory_record(
                                         dir,
                                         CHOOSE o \in Orders(DOMAIN dir.directories) : TRUE,
                                         CHOOSE o \in Orders(DOMAIN dir.files) : TRUE)]]]
      file_writes ==
        [i \in 1..nf |->
           [sector |-> next_sector(sizes, nd + i),
            extent |-> [kind |-> "data", bytes |-> self.files[order.files[i]].content]]]
      own_write ==
        IF self.sector_location = None THEN <<>>
        ELSE <<[sector |-> self.sector_location,
                extent |-> [kind |-> "records",
                            records |->
                              <<write_to_buffer(new_directory(Dot, self.sector_location,
                                                              calculate_size(self))),
                                write_to_buffer(new_directory(DotDot, self.sector_location, 0))>>
                              \o child_entries(updated, order.directory_entries,
                                               order.file_entries)]]>>
  IN write_all(sectors,
               dir_writes \o SelectSeq(file_writes, LAMBDA w : w.extent.bytes # <<>>)
               \o own_write)

(* the orders of write_to_iso for a directory *)
WriteOrders(dir) ==
  [directories : Orders(DOMAIN dir.directories), files : Orders(DOMAIN dir.files),
   directory_entries : Orders(DOMAIN dir.directories), file_entries : Orders(DOMAIN dir.files)]

(* Iso::write_to into an empty writer: the system area is sectors 0..15, all
   zero; the descriptor's root record is the first 34 bytes of what
   write_to_buffer made *)
write_to(self, order) ==
  write_to_iso(
    self.root_directory,
    insert(insert(<<>>, 16,
                  [kind |-> "pvd",
                   root_directory_entry |->
                     write_to_buffer(self.volume_descriptor.root_directory_entry)]),
           17, [kind |-> "terminator"]),
    order)

(* the bytes of an extent and of an image *)
extent_len(written) == IF written.kind = "data" THEN Len(written.bytes) ELSE SECTOR_SIZE

image_len(img) == MaxOf({s * SECTOR_SIZE + extent_len(img[s]) : s \in DOMAIN img})

(* DirectoryEntry::parse_from_buffer of the 34 bytes at offset 156 of a
   descriptor: None when the record is longer than the buffer *)
parse_root_directory_entry(record) ==
  IF record.length > 34 THEN NoEntry ELSE parse_from_buffer(record)

(* the records read_from_iso walks over in the size bytes at a location: those
   of a sector of records that end inside the buffer; a sector of zeros or of
   file content offers none *)
records_in(img, location, size) ==
  IF location \in DOMAIN img /\ img[location].kind = "records"
  THEN SelectSeq([i \in 1..Len(img[location].records) |->
                    [record |-> img[location].records[i],
                     end |-> record_offset(img[location].records, i + 1)]],
                 LAMBDA r : r.end <= size)
  ELSE <<>>

bytes_at(img, location, size) ==
  IF location \in DOMAIN img /\ img[location].kind = "data"
  THEN SubSeq(img[location].bytes, 1, size)
  ELSE [i \in 1..size |-> 0]

(* Directory::read_from_iso over an image of write_to *)
RECURSIVE read_from_iso(_, _)
RECURSIVE read_entries(_, _, _, _)
read_from_iso(img, entry) ==
  IF ~is_directory(entry) THEN [kind |-> "Err"]
  ELSE IF entry.extent_location = 0 \/ entry.extent_size = 0 THEN [kind |-> "Err"]
  ELSE IF entry.extent_size > 10 * 1024 * 1024 THEN [kind |-> "Err"]
  ELSE IF entry.extent_location * SECTOR_SIZE + entry.extent_size > image_len(img)
       THEN [kind |-> "Err"]
  ELSE [kind |-> "Ok",
        directory |-> read_entries(img,
                                   records_in(img, entry.extent_location, entry.extent_size),
                                   1, Frame(entry).directory)]

read_entries(img, records, i, directory) ==
  IF i > Len(records) THEN directory
  ELSE LET entry == parse_from_buffer(records[i].record)
           subdir == read_from_iso(img, entry)
           next ==
             IF skipped(entry) THEN directory
             ELSE IF is_directory(entry)
                  THEN IF self_referential(entry, directory.sector_location) THEN directory
                       ELSE IF subdir.kind = "Ok"
                            THEN [directory EXCEPT
                                    !.directories = insert(@, entry.name, subdir.directory)]
                            ELSE directory
                  ELSE IF /\ entry.extent_location > 0 /\ entry.extent_size > 0
                          /\ entry.extent_size <= 100 * 1024 * 1024
                          /\ entry.extent_location * SECTOR_SIZE + entry.extent_size
                             <= image_len(img)
                       THEN [directory EXCEPT
                               !.files = insert(@, entry.name,
                                                File_new(entry.name,
                                                         bytes_at(img, entry.extent_location,
                                                                  entry.extent_size)))]
                       ELSE directory
       IN read_entries(img, records, i + 1, next)

(* Iso::read_from: the descriptor is looked for in the first 16 sectors *)
read_from(img) ==
  LET found == {s \in 0..15 : s \in DOMAIN img /\ img[s].kind = "pvd"}
  IN IF found = {}
     THEN [kind |-> "Err", error |-> "Failed to find primary volume descriptor"]
     ELSE LET parsed == parse_root_directory_entry(
                          img[CHOOSE s \in found : \A t \in found : s <= t].root_directory_entry)
              root_entry_ == IF parsed.some THEN parsed ELSE new_directory(ROOT, 0, 0)
              root == read_from_iso(img, root_entry_)
          IN IF root_entry_.extent_location = 0 \/ root_entry_.extent_size = 0
             THEN [kind |-> "Err", error |-> "Invalid root directory entry"]
             ELSE IF root.kind = "Err"
                  THEN [kind |-> "Err", error |-> "Failed to read root directory"]
                  ELSE [kind |-> "Ok",
                        iso |-> [volume_descriptor |-> [root_directory_entry |-> root_entry_],
                                 root_directory |-> root.directory,
                                 modified |-> FALSE]]

(* IsoBuilder::new().build() *)
IsoBuilder_build ==
  [volume_descriptor |-> [root_directory_entry |-> new_directory(ROOT, 0, 0)],
   root_directory |-> Directory_new(ROOT),
   modified |-> TRUE]

(* Iso::get_or_create_directory: the directory it is called on afterwards *)
RECURSIVE get_or_create_directory(_, _)
get_or_create_directory(current_dir, components) ==
  IF components = <<>> THEN current_dir
  ELSE LET dir_name == Head(components)
           found == IF dir_name \in DOMAIN current_dir.directories THEN current_dir
                    ELSE [current_dir EXCEPT
                            !.directories = insert(@, dir_name, Directory_new(dir_name))]
       IN [found EXCEPT
             !.directories = insert(@, dir_name,
                                    get_or_create_directory(@[dir_name], Tail(components)))]

RECURSIVE directory_at(_, _)
directory_at(dir, components) ==
  IF components = <<>> THEN dir
  ELSE directory_at(dir.directories[Head(components)], Tail(components))

RECURSIVE replace_at(_, _, _)
replace_at(dir, components, new) ==
  IF components = <<>> THEN new
  ELSE [dir EXCEPT
          !.directories = insert(@, Head(components),
                                 replace_at(@[Head(components)], Tail(components), new))]

(* Directory::add_file *)
Directory_add_file(dir, name, content) ==
  IF name \in DOMAIN dir.files THEN [kind |-> "Err", directory |-> dir]
  ELSE [kind |-> "Ok",
        directory |-> [dir EXCEPT !.files = insert(@, name, File_new(name, content))]]

(* Iso::add_file_with_content: the result and the Iso afterwards *)
add_file_with_content(self, path, content) ==
  IF ~validate_path(path) THEN [kind |-> "Err", iso |-> self]
  ELSE LET parent_path == Normal(parent(path))
           created == get_or_create_directory(self.root_directory, parent_path)
           added == Directory_add_file(directory_at(created, parent_path), file_name(path),
                                       content)
       IN IF ~has_file_name(path)
          THEN [kind |-> "Err", iso |-> [self EXCEPT !.root_directory = created]]
          ELSE IF added.kind = "Err"
               THEN [kind |-> "Err", iso |-> [self EXCEPT !.root_directory = created]]
               ELSE [kind |-> "Ok",
                     iso |-> [self EXCEPT
                                !.root_directory = replace_at(created, parent_path,
                                                              added.directory),
                                !.modified = TRUE]]

(* Iso::add_directory *)
add_directory(self, path) ==
  IF ~validate_path(path) THEN [kind |-> "Err", iso |-> self]
  ELSE [kind |-> "Ok",
        iso |-> [self EXCEPT
                   !.root_directory = get_or_create_directory(@, Normal(path)),
                   !.modified = TRUE]]

(* Iso::add_file: the source cannot be opened, or its content is added *)
add_file(self, path, source) ==
  IF ~source.exists THEN [kind |-> "Err", iso |-> self]
  ELSE LET added == add_file_with_content(self, path, source.content)
       IN IF added.kind = "Err" THEN added
          ELSE [kind |-> "Ok", iso |-> [added.iso EXCEPT !.modified = TRUE]]

(* Inputs of the Iso *)

IsoPaths == {<<<<65>>>>, <<<<102>>>>, <<<<65>>, <<70>>>>, <<<<65>>, DotDot>>, <<<<45>>>>}
IsoContents == {<<>>, <<7>>}
IsoSources == {[exists |-> FALSE, content |-> <<>>], [exists |-> TRUE, content |-> <<7, 7>>]}

IsoCall(op, kind, before) == [op |-> op, kind |-> kind, before |-> before]

NoImage == [written |-> FALSE, sectors |-> <<>>, root_directory |-> Directory_new(ROOT)]
NotRead == [result |-> [kind |-> "None"], root_directory |-> Directory_new(ROOT)]

IdleIso ==
  /\ iso = IsoBuilder_build
  /\ iso_last = IsoCall("build", "Ok", IsoBuilder_build)
  /\ iso_image = NoImage
  /\ iso_read = NotRead
  /\ iso_ops = 0

----------------------------------------------------------------------------
(* Actions of the writer *)

NoUpsert == [destination |-> <<>>, source |-> None, result |-> "None", on_empty |-> FALSE]

InitWriter ==
  /\ sector_size \in SectorSizes
  /\ filesystem = RootDirectory
  /\ volumes = <<>>
  /\ sink = <<>>
  /\ position = 0
  /\ phase = "build"
  /\ upserts = 0
  /\ last_upsert = NoUpsert

IdleWriter ==
  /\ sector_size = 2048
  /\ filesystem = RootDirectory
  /\ volumes = <<>>
  /\ sink = <<>>
  /\ position = 0
  /\ phase = "idle"
  /\ upserts = 0
  /\ last_upsert = NoUpsert

IdleAllocators ==
  /\ allocator = LbaAllocator_new(2048, 16)
  /\ allocated = <<>>
  /\ layout_allocator = layout_LbaAllocator_new(2048, 16)
  /\ layout_allocated = <<>>

IdleScan ==
  /\ storage = [short |-> TRUE, sectors |-> <<>>, partial |-> None]
  /\ scan_position = 0
  /\ scan_volumes = <<>>
  /\ scan_pc = "idle"

NoParse == [record |-> Padding, entry |-> NoEntry]

IdleRead ==
  /\ image = <<>>
  /\ root_entry = NoEntry
  /\ read_stack = <<>>
  /\ read_entry = NoParse
  /\ read_pc = "idle"
  /\ read_result = Directory_new(<<>>)

IdleCodec ==
  /\ codec_value = NoValue
  /\ codec_out = Buffer(0, 0)
  /\ codec_result = [kind |-> "Idle", expected |-> 0, actual |-> 0]

NoWrite == [calls |-> 0, buf_len |-> 0, kind |-> "None", written |-> 0]

IdleSector ==
  /\ aligned_writer = SectorWriter_new(0, 2048)
  /\ aligned_io = [sink |-> <<>>, position |-> 0]
  /\ aligned_result = NoWrite

NoMerge == [calls |-> 0, entry |-> RootDirectory]

IdleMerge ==
  /\ merge_entries = <<>>
  /\ merge_last = NoMerge

Unparsed == [spec |-> "None", lib |-> "None"]

IdleParse ==
  /\ parse_sector = Sector(255, TRUE)
  /\ parse_result = Unparsed

(* Filesystem::upsert_file returning Ok *)
UpsertFile(destination, source) ==
  /\ phase = "build"
  /\ upserts < MaxUpserts
  /\ source \in Sources
  /\ filesystem' = [filesystem EXCEPT !.entries = upsert_file(@, destination, source)]
  /\ upserts' = upserts + 1
  /\ last_upsert' = [destination |-> destination, source |-> source, result |-> "Ok",
                     on_empty |-> filesystem.entries = <<>>]
  /\ UNCHANGED <<sector_size, volumes, sink, position, phase, alloc_vars, scan_vars, read_vars, codec_vars, sector_vars, merge_vars, parse_vars, iso_vars>>

(* Filesystem::upsert_file when FileEntry::new cannot open the source *)
UpsertFileErr(destination) ==
  /\ phase = "build"
  /\ upserts < MaxUpserts
  /\ upserts' = upserts + 1
  /\ last_upsert' = [destination |-> destination, source |-> None, result |-> "Err",
                     on_empty |-> filesystem.entries = <<>>]
  /\ UNCHANGED <<sector_size, filesystem, volumes, sink, position, phase, alloc_vars, scan_vars, read_vars, codec_vars, sector_vars, merge_vars, parse_vars, iso_vars>>

(* IsoWriter::add_volume of a PrimaryVolume holding the filesystem built so far *)
AddVolume ==
  /\ phase = "build"
  /\ Len(volumes) < MaxVolumes
  /\ volumes' = Append(volumes, filesystem)
  /\ filesystem' = RootDirectory
  /\ last_upsert' = NoUpsert
  /\ UNCHANGED <<sector_size, sink, position, phase, upserts, alloc_vars, scan_vars, read_vars, codec_vars, sector_vars, merge_vars, parse_vars, iso_vars>>

(* IsoWriter::write into an empty sink *)
Write ==
  /\ phase = "build"
  /\ LET w == IsoWriter_write(volumes, sector_size)
     IN /\ volumes' = w.volumes
        /\ sink' = w.io.sink
        /\ position' = w.io.position
        /\ allocator' = w.allocator
  /\ phase' = "written"
  /\ UNCHANGED <<sector_size, filesystem, upserts, last_upsert, allocated, layout_allocator,
                 layout_allocated, scan_vars, read_vars, codec_vars, sector_vars, merge_vars, parse_vars, iso_vars>>

Next ==
  \/ \E destination \in Destinations, source \in Sources : UpsertFile(destination, source)
  \/ \E destination \in Destinations : UpsertFileErr(destination)
  \/ AddVolume
  \/ Write

Init == InitWriter /\ IdleAllocators /\ IdleScan /\ IdleRead /\ IdleCodec /\ IdleSector /\ IdleMerge /\ IdleParse /\ IdleIso

Spec == Init /\ [][Next]_vars

----------------------------------------------------------------------------
(* Actions of the free-standing allocators *)

InitAllocators ==
  /\ \E ss \in SectorSizes, start \in StartLbas :
       /\ allocator = LbaAllocator_new(ss, start)
       /\ layout_allocator = layout_LbaAllocator_new(ss, start)
  /\ allocated = <<>>
  /\ layout_allocated = <<>>

(* isofs LbaAllocator::allocate *)
Allocate(size) ==
  /\ Len(allocated) < MaxAllocations
  /\ LET r == allocate(allocator, size)
     IN /\ allocator' = r.allocator
        /\ allocated' = Append(allocated, <<size, r.lba>>)
  /\ UNCHANGED <<layout_allocator, layout_allocated, writer_vars, scan_vars, read_vars, codec_vars, sector_vars, merge_vars, parse_vars, iso_vars>>

(* isopod layout LbaAllocator::allocate *)
LayoutAllocate(size) ==
  /\ Len(layout_allocated) < MaxAllocations
  /\ LET r == layout_allocate(layout_allocator, size)
     IN /\ layout_allocator' = r.allocator
        /\ layout_allocated' = Append(layout_allocated, <<size, r.lba>>)
  /\ UNCHANGED <<allocator, allocated, writer_vars, scan_vars, read_vars, codec_vars, sector_vars, merge_vars, parse_vars, iso_vars>>

NextAlloc ==
  \/ \E size \in AllocationSizes : Allocate(size)
  \/ \E size \in AllocationSizes : LayoutAllocate(size)

InitAlloc == IdleWriter /\ InitAllocators /\ IdleScan /\ IdleRead /\ IdleCodec /\ IdleSector /\ IdleMerge /\ IdleParse /\ IdleIso

SpecAlloc == InitAlloc /\ [][NextAlloc]_vars

----------------------------------------------------------------------------
(* Actions of Iso::scan_volumes, one per evaluation of the loop *)

InitScanVolumes ==
  /\ storage \in Storages
  /\ scan_position = 0
  /\ scan_volumes = <<>>
  /\ scan_pc = "idle"

(* the slice of the storage from STARTING_SECTOR on *)
ScanStart ==
  /\ scan_pc = "idle"
  /\ scan_pc' = IF storage.short THEN "panic" ELSE "loop"
  /\ UNCHANGED <<storage, scan_position, scan_volumes, writer_vars, alloc_vars, read_vars, codec_vars, sector_vars, merge_vars, parse_vars, iso_vars>>

(* the loop condition `position < storage.len() || storage[position] != 255`
   and, when it holds, the loop body *)
ScanLoop ==
  /\ scan_pc = "loop"
  /\ LET in_bounds == scan_position < storage_len(storage)
         byte == storage_byte(storage, scan_position)
         enter == in_bounds \/ (byte # None /\ byte # 255)
         index_panic == ~in_bounds /\ byte = None
         slice_panic == scan_position + VOLUME_DESCRIPTOR_SIZE > storage_len(storage)
         parsed == VolumeDescriptor_parse(storage.sectors[scan_position \div VOLUME_DESCRIPTOR_SIZE + 1])
     IN IF index_panic \/ (enter /\ slice_panic) \/ (enter /\ parsed # "Ok")
          THEN /\ scan_pc' = "panic"
               /\ UNCHANGED <<scan_position, scan_volumes>>
        ELSE IF enter
          THEN /\ scan_volumes' = Append(scan_volumes, scan_position \div VOLUME_DESCRIPTOR_SIZE + 1)
               /\ scan_position' = scan_position + VOLUME_DESCRIPTOR_SIZE
               /\ scan_pc' = "loop"
        ELSE /\ scan_pc' = "ok"
             /\ UNCHANGED <<scan_position, scan_volumes>>
  /\ UNCHANGED <<storage, writer_vars, alloc_vars, read_vars, codec_vars, sector_vars, merge_vars, parse_vars, iso_vars>>

NextScan == ScanStart \/ ScanLoop

InitScan == IdleWriter /\ IdleAllocators /\ InitScanVolumes /\ IdleRead /\ IdleCodec /\ IdleSector /\ IdleMerge /\ IdleParse /\ IdleIso

SpecScan == InitScan /\ [][NextScan]_vars

----------------------------------------------------------------------------
(* Actions of Directory::read_from_iso, one per evaluation of its loop *)

InitReadFromIso ==
  /\ image \in Images
  /\ root_entry \in RootEntries
  /\ read_stack = <<>>
  /\ read_entry = NoParse
  /\ read_pc = "idle"
  /\ read_result = Directory_new(<<>>)

(* the outermost call: the checks and the read of the extent *)
ReadFromIso ==
  /\ read_pc = "idle"
  /\ IF read_from_iso_enter(image, root_entry) = "Ok"
     THEN /\ read_stack' = <<Frame(root_entry)>>
          /\ read_pc' = "run"
     ELSE /\ read_pc' = "err"
          /\ UNCHANGED read_stack
  /\ UNCHANGED <<image, root_entry, read_entry, read_result, writer_vars, alloc_vars, scan_vars, codec_vars, sector_vars, merge_vars, parse_vars, iso_vars>>

(* one pass through the loop body of the innermost call; a recursive call
   that returns Err at once is part of the pass, one that reads its extent
   becomes the innermost call. A call for which the thread's stack, of
   MaxStack frames, has no room ends the process. *)
ReadRecord ==
  /\ read_pc = "run"
  /\ LET top == Len(read_stack)
         frame == read_stack[top]
         location == frame.directory.sector_location
         record == record_at(image, location, frame.offset)
         record_length == record.length
         entry == parse_from_buffer(record)
         advanced == [frame EXCEPT !.offset = @ + record_length]
         readable == /\ entry.extent_location > 0
                     /\ entry.extent_size > 0
                     /\ entry.extent_size <= 100 * 1024 * 1024
                     /\ read_exact(image, entry.extent_location, entry.extent_size)
         file == File_new(entry.name, file_buffer(entry.extent_location, entry.extent_size))
     IN /\ ~loop_ends(image, frame)
        /\ IF frame.offset + record_length > frame.directory.size
           THEN /\ read_stack' = [read_stack EXCEPT ![top].offset =
                                    ((@ + SECTOR_SIZE) \div SECTOR_SIZE) * SECTOR_SIZE]
                /\ UNCHANGED <<read_entry, read_pc>>
           ELSE /\ read_entry' = [record |-> record, entry |-> entry]
                /\ IF skipped(entry)
                     THEN /\ read_stack' = [read_stack EXCEPT ![top] = advanced]
                          /\ UNCHANGED read_pc
                   ELSE IF is_directory(entry)
                     THEN IF /\ ~self_referential(entry, location)
                             /\ read_from_iso_enter(image, entry) = "Ok"
                          THEN IF top < MaxStack
                               THEN /\ read_stack' = Append(read_stack, Frame(entry))
                                    /\ UNCHANGED read_pc
                               ELSE /\ read_pc' = "abort"
                                    /\ UNCHANGED read_stack
                          ELSE /\ read_stack' = [read_stack EXCEPT ![top] = advanced]
                               /\ UNCHANGED read_pc
                   ELSE IF readable
                     THEN /\ read_stack' = [read_stack EXCEPT ![top] =
                            [advanced EXCEPT !.directory.files = insert(@, entry.name, file)]]
                          /\ UNCHANGED read_pc
                   ELSE /\ read_stack' = [read_stack EXCEPT ![top] = advanced]
                        /\ UNCHANGED read_pc
  /\ UNCHANGED <<image, root_entry, read_result, writer_vars, alloc_vars, scan_vars, codec_vars, sector_vars, merge_vars, parse_vars, iso_vars>>

(* the loop of the innermost call is over: it returns Ok(directory), to the
   caller's loop body or out of the outermost call *)
ReadReturn ==
  /\ read_pc = "run"
  /\ LET top == Len(read_stack)
         frame == read_stack[top]
     IN /\ loop_ends(image, frame)
        /\ IF top = 1
           THEN /\ read_result' = frame.directory
                /\ read_pc' = "ok"
                /\ read_stack' = <<>>
           ELSE LET caller == read_stack[top - 1]
                    record == record_at(image, caller.directory.sector_location, caller.offset)
                IN /\ read_stack' = [SubSeq(read_stack, 1, top - 1) EXCEPT ![top - 1] =
                         [caller EXCEPT
                            !.directory.directories = insert(@, frame.entry.name, frame.directory),
                            !.offset = @ + record.length]]
                   /\ UNCHANGED <<read_pc, read_result>>
  /\ UNCHANGED <<image, root_entry, read_entry, writer_vars, alloc_vars, scan_vars, codec_vars, sector_vars, merge_vars, parse_vars, iso_vars>>

NextRead == ReadFromIso \/ ReadRecord \/ ReadReturn

InitRead == IdleWriter /\ IdleAllocators /\ IdleScan /\ InitReadFromIso /\ IdleCodec /\ IdleSector /\ IdleMerge /\ IdleParse /\ IdleIso

SpecRead == InitRead /\ [][NextRead]_vars

(* the call runs on: a step that can be taken is taken *)
SpecReadLive == SpecRead /\ WF_vars(NextRead)

----------------------------------------------------------------------------
(* Actions of a Filesystem that takes up to MaxMerges upsert_file calls, each
   with a source that opens *)

MergeDestinations == {<<"A">>, <<"BB">>, <<"A", "BB">>}

InitUpserts ==
  /\ merge_entries = RootDirectory.entries
  /\ merge_last = NoMerge

(* Filesystem::upsert_file(destination, source) *)
UpsertInto(destination, source) ==
  /\ merge_last.calls < MaxMerges
  /\ merge_entries' = upsert_file(merge_entries, destination, source)
  /\ merge_last' = [calls |-> merge_last.calls + 1,
                    entry |-> nest(FileEntry_new(destination[Len(destination)], source),
                                   destination, Len(destination) - 1)]
  /\ UNCHANGED <<writer_vars, alloc_vars, scan_vars, read_vars, codec_vars, sector_vars, parse_vars, iso_vars>>

NextMerge ==
  \E destination \in MergeDestinations, source \in Sources : UpsertInto(destination, source)

InitMerge ==
  IdleWriter /\ IdleAllocators /\ IdleScan /\ IdleRead /\ IdleCodec /\ IdleSector
  /\ InitUpserts /\ IdleParse /\ IdleIso

SpecMerge == InitMerge /\ [][NextMerge]_vars

----------------------------------------------------------------------------
(* Actions of the parsers of a volume descriptor sector *)

InitParseSector ==
  /\ \E type \in 0..255, wellformed \in BOOLEAN : parse_sector = Sector(type, wellformed)
  /\ parse_result = Unparsed

(* spec::VolumeDescriptor::parse(sector) and VolumeDescriptor::parse(sector) *)
ParseDescriptor ==
  /\ parse_result = Unparsed
  /\ parse_result' = [spec |-> spec_VolumeDescriptor_parse(parse_sector),
                      lib |-> VolumeDescriptor_parse(parse_sector)]
  /\ UNCHANGED <<parse_sector, writer_vars, alloc_vars, scan_vars, read_vars, codec_vars,
                 sector_vars, merge_vars, iso_vars>>

NextParse == ParseDescriptor

InitParse ==
  IdleWriter /\ IdleAllocators /\ IdleScan /\ IdleRead /\ IdleCodec /\ IdleSector /\ IdleMerge
  /\ InitParseSector /\ IdleIso

SpecParse == InitParse /\ [][NextParse]_vars

----------------------------------------------------------------------------
(* Actions of an Iso made by IsoBuilder::new().build(), up to MaxIsoOps calls *)

(* iso.add_directory(path) *)
AddDirectory(path) ==
  /\ iso_ops < MaxIsoOps
  /\ LET r == add_directory(iso, path)
     IN /\ iso' = r.iso
        /\ iso_last' = IsoCall("add_directory", r.kind, iso)
  /\ iso_ops' = iso_ops + 1
  /\ UNCHANGED <<iso_image, iso_read, writer_vars, alloc_vars, scan_vars, read_vars, codec_vars,
                 sector_vars, merge_vars, parse_vars>>

(* iso.add_file_with_content(path, content) *)
AddFileWithContent(path, content) ==
  /\ iso_ops < MaxIsoOps
  /\ LET r == add_file_with_content(iso, path, content)
     IN /\ iso' = r.iso
        /\ iso_last' = IsoCall("add_file_with_content", r.kind, iso)
  /\ iso_ops' = iso_ops + 1
  /\ UNCHANGED <<iso_image, iso_read, writer_vars, alloc_vars, scan_vars, read_vars, codec_vars,
                 sector_vars, merge_vars, parse_vars>>

(* iso.add_file(path, source) *)
AddFile(path, source) ==
  /\ iso_ops < MaxIsoOps
  /\ LET r == add_file(iso, path, source)
     IN /\ iso' = r.iso
        /\ iso_last' = IsoCall("add_file", r.kind, iso)
  /\ iso_ops' = iso_ops + 1
  /\ UNCHANGED <<iso_image, iso_read, writer_vars, alloc_vars, scan_vars, read_vars, codec_vars,
                 sector_vars, merge_vars, parse_vars>>

(* iso.root_directory_mut(), the reference left unused *)
RootDirectoryMut ==
  /\ iso_ops < MaxIsoOps
  /\ iso' = [iso EXCEPT !.modified = TRUE]
  /\ iso_last' = IsoCall("root_directory_mut", "Ok", iso)
  /\ iso_ops' = iso_ops + 1
  /\ UNCHANGED <<iso_image, iso_read, writer_vars, alloc_vars, scan_vars, read_vars, codec_vars,
                 sector_vars, merge_vars, parse_vars>>

(* iso.volume_descriptor_mut(), the reference left unused *)
VolumeDescriptorMut ==
  /\ iso_ops < MaxIsoOps
  /\ iso' = [iso EXCEPT !.modified = TRUE]
  /\ iso_last' = IsoCall("volume_descriptor_mut", "Ok", iso)
  /\ iso_ops' = iso_ops + 1
  /\ UNCHANGED <<iso_image, iso_read, writer_vars, alloc_vars, scan_vars, read_vars, codec_vars,
                 sector_vars, merge_vars, parse_vars>>

(* iso.write_to(&mut writer) into an empty writer that takes every write *)
WriteTo ==
  /\ iso_ops < MaxIsoOps
  /\ \E order \in WriteOrders(iso.root_directory) :
       iso_image' = [written |-> TRUE, sectors |-> write_to(iso, order),
                     root_directory |-> iso.root_directory]
  /\ iso_last' = IsoCall("write_to", "Ok", iso)
  /\ iso_ops' = iso_ops + 1
  /\ UNCHANGED <<iso, iso_read, writer_vars, alloc_vars, scan_vars, read_vars, codec_vars,
                 sector_vars, merge_vars, parse_vars>>

(* iso.save(path): File::create or a write fails, or the image is written *)
Save(created) ==
  /\ iso_ops < MaxIsoOps
  /\ IF created
     THEN /\ \E order \in WriteOrders(iso.root_directory) :
               iso_image' = [written |-> TRUE, sectors |-> write_to(iso, order),
                             root_directory |-> iso.root_directory]
          /\ iso' = [iso EXCEPT !.modified = FALSE]
          /\ iso_last' = IsoCall("save", "Ok", iso)
     ELSE /\ iso_last' = IsoCall("save", "Err", iso)
          /\ UNCHANGED <<iso, iso_image>>
  /\ iso_ops' = iso_ops + 1
  /\ UNCHANGED <<iso_read, writer_vars, alloc_vars, scan_vars, read_vars, codec_vars,
                 sector_vars, merge_vars, parse_vars>>

(* Iso::read_from(&mut reader) on the image last written *)
ReadFrom ==
  /\ iso_ops < MaxIsoOps
  /\ iso_image.written
  /\ iso_read' = [result |-> read_from(iso_image.sectors),
                  root_directory |-> iso_image.root_directory]
  /\ iso_last' = IsoCall("read_from", read_from(iso_image.sectors).kind, iso)
  /\ iso_ops' = iso_ops + 1
  /\ UNCHANGED <<iso, iso_image, writer_vars, alloc_vars, scan_vars, read_vars, codec_vars,
                 sector_vars, merge_vars, parse_vars>>

NextIso ==
  \/ \E path \in IsoPaths : AddDirectory(path)
  \/ \E path \in IsoPaths, content \in IsoContents : AddFileWithContent(path, content)
  \/ \E path \in IsoPaths, source \in IsoSources : AddFile(path, source)
  \/ RootDirectoryMut
  \/ VolumeDescriptorMut
  \/ WriteTo
  \/ \E created \in BOOLEAN : Save(created)
  \/ ReadFrom

InitIso ==
  IdleWriter /\ IdleAllocators /\ IdleScan /\ IdleRead /\ IdleCodec /\ IdleSector /\ IdleMerge
  /\ IdleParse /\ IdleIso

SpecIso == InitIso /\ [][NextIso]_vars

----------------------------------------------------------------------------
(* Actions of a SectorWriter over a storage that takes every write whole *)

SmallSectorSizes == {64, 128}
SectorOffsets == {0, 16}
BufferLengths == {0, 1, 34, 64, 65, 128, 129}

InitSectorWriter ==
  /\ \E sector_offset \in SectorOffsets, ss \in SmallSectorSizes :
       aligned_writer = SectorWriter_new(sector_offset, ss)
  /\ aligned_io = [sink |-> <<>>, position |-> 0]
  /\ aligned_result = NoWrite

(* SectorWriter::write_aligned(&buf) with buf.len() = buf_len *)
WriteAligned(buf_len) ==
  /\ aligned_result.calls < MaxWrites
  /\ LET w == write_aligned(aligned_writer, aligned_io, buf_len, <<>>, NoRecord)
     IN /\ aligned_writer' = w.sw
        /\ aligned_io' = w.io
        /\ aligned_result' = [calls |-> aligned_result.calls + 1, buf_len |-> buf_len,
                             kind |-> "Ok",
                             written |-> w.io.position - w.io.sink[Len(w.io.sink)].offset]
  /\ UNCHANGED <<writer_vars, alloc_vars, scan_vars, read_vars, codec_vars, merge_vars, parse_vars, iso_vars>>

NextSector == \E buf_len \in BufferLengths : WriteAligned(buf_len)

InitSector == IdleWriter /\ IdleAllocators /\ IdleScan /\ IdleRead /\ IdleCodec /\ InitSectorWriter /\ IdleMerge /\ IdleParse /\ IdleIso

SpecSector == InitSector /\ [][NextSector]_vars

----------------------------------------------------------------------------
(* Actions of IsoSerialize::serialize *)

(* volume ids: none, the command line tool's, "vol-1" and one of 33 bytes *)
VolumeIds ==
  {<<>>, TEST_ISO9660, <<118, 111, 108, 45, 49>>, <<65, 66, 67, 68, 69, 70, 71, 72, 73, 74, 75, 76, 77, 78, 79, 80, 81, 82, 83, 84, 85, 86, 87, 88, 89, 90, 48, 49, 50, 51, 52, 53, 54>>}

U32Values == {0, 1, 16909060, 2147483647}
U16Values == {0, 258, 65535}
Fills == {0, 170}

RootRecords ==
  {[NoRecord EXCEPT !.length = 34, !.extent_location = a, !.data_length = b,
                    !.file_flags = 2, !.volume_sequence_number = c]
   : a \in U32Values, b \in U32Values, c \in U16Values}

PrimaryVolumeDescriptors ==
  {[PrimaryVolumeDescriptor(volume_id, ss, root) EXCEPT
      !.volume_space_size = root.data_length,
      !.path_table_size = root.extent_location,
      !.volume_set_size = root.volume_sequence_number,
      !.volume_sequence_number = d]
   : volume_id \in VolumeIds, ss \in SectorSizes, root \in RootRecords, d \in U16Values}

SupplementaryVolumeDescriptors ==
  {[standard_identifier |-> CD001, version |-> 1, volume_flags |-> 0,
    volume_space_size |-> root.data_length, volume_set_size |-> d,
    volume_sequence_number |-> root.volume_sequence_number, logical_block_size |-> d,
    path_table_size |-> root.extent_location, root_directory_record |-> root]
   : root \in RootRecords, d \in U16Values}

DirectoryRecords ==
  {[descriptor(FileEntry_new(name, 1)) EXCEPT
      !.extent_location = root.extent_location,
      !.data_length = root.data_length,
      !.volume_sequence_number = root.volume_sequence_number]
   : name \in Names, root \in RootRecords}

Years == {0, 1999, 9999, 10000, 65535}

(* [u8; 18] and [u8; 29] *)
ElToritoSectionEntries == {[vendor_selection_criteria |-> [i \in 1..18 |-> b]] : b \in Fills}
ElToritoSectionEntryExtensions ==
  {[vendor_unique_selection_criteria |-> [i \in 1..29 |-> b]] : b \in Fills}

Values ==
  {Value("PrimaryVolumeDescriptor", r) : r \in PrimaryVolumeDescriptors}
  \cup {Value("DigitsYear", [year |-> y]) : y \in Years}
  \cup {Value("ElToritoSectionEntry", r) : r \in ElToritoSectionEntries}
  \cup {Value("ElToritoSectionEntryExtension", r) : r \in ElToritoSectionEntryExtensions}
  \cup {Value("ElToritoBootRecordVolumeDescriptor", [boot_catalog_pointer |-> p]) : p \in U32Values}
  \cup {Value("SupplementaryVolumeDescriptor", r) : r \in SupplementaryVolumeDescriptors}
  \cup {Value("VolumeDescriptorSetTerminator", NoRecord)}
  \cup {Value("DirectoryRecord", r) : r \in DirectoryRecords}
  \cup {Value("RootDirectoryRecord", r) : r \in RootRecords}

NoResult == [kind |-> "None", expected |-> 0, actual |-> 0]

InitSerialize ==
  /\ codec_value \in Values
  /\ \E short \in 0..2, fill \in Fills :
       codec_out = Buffer(extent(codec_value) + 1 - short, fill)
  /\ codec_result = NoResult

(* IsoSerialize::serialize(&value, &mut out) *)
Serialize ==
  /\ codec_result = NoResult
  /\ LET r == serialize(codec_value, codec_out)
     IN /\ codec_result' = r.result
        /\ codec_out' = r.out
  /\ UNCHANGED <<codec_value, writer_vars, alloc_vars, scan_vars, read_vars, sector_vars, merge_vars, parse_vars, iso_vars>>

NextCodec == Serialize

InitCodec == IdleWriter /\ IdleAllocators /\ IdleScan /\ IdleRead /\ InitSerialize /\ IdleSector /\ IdleMerge /\ IdleParse /\ IdleIso

SpecCodec == InitCodec /\ [][NextCodec]_vars

----------------------------------------------------------------------------
(* Properties of IsoWriter::write *)

Written == phase = "written"

(* C1: after write with N >= 1 volumes the system area [0, 16*sector_size) is
   zero, the descriptor of volume i sits in sector 16+i with its type tag 1 in
   byte 0, and the set terminator (255, "CD001", 1) sits in sector 16+N. *)
C1_DescriptorSectors ==
  (Written /\ Len(volumes) >= 1) =>
    /\ \A k \in 1..Len(sink) :
         \A x \in {sink[k].offset} \cup {s * sector_size : s \in 0..15} :
           x < 16 * sector_size => ImageByte(sink, x) = 0
    /\ \A i \in 1..Len(volumes) : ImageByte(sink, (16 + i - 1) * sector_size) = 1
    /\ LET t == (16 + Len(volumes)) * sector_size
       IN /\ ImageByte(sink, t) = 255
          /\ \A j \in 1..5 : ImageByte(sink, t + j) = CD001[j]
          /\ ImageByte(sink, t + 6) = 1

(* C2: after write every file of every volume has, inside its parent
   directory's extent, a directory record that carries the file's LBA and its
   size, and the image holds the file's content from LBA * sector_size on. *)
FileRecorded(n, k) ==
  LET x == sink[k].offset
      first == n.parent.extent_lba * sector_size
      last == (n.parent.extent_lba + ExtentSectors(n.parent, sector_size)) * sector_size
  IN /\ sink[k].kind = "record"
     /\ sink[k].id = n.id
     /\ first <= x
     /\ x + descriptor_length(n.entry) <= last
     /\ ImageByte(sink, x) = descriptor_length(n.entry)
     /\ ImageU32(sink, x + 2, n.entry.extent_lba)
     /\ ImageU32(sink, x + 10, SourceLen(n.entry.source))

FileStored(n) ==
  \A j \in 0..(SourceLen(n.entry.source) - 1) :
    ImageByte(sink, n.entry.extent_lba * sector_size + j) = ContentByte(n.entry.source, j)

C2_FilesRecordedAndStored ==
  Written =>
    \A n \in VolumeNodes(volumes) :
      n.entry.kind = "File" =>
        /\ \E k \in 1..Len(sink) : FileRecorded(n, k)
        /\ FileStored(n)

(* C3: every directory record reaches the sink whole and inside one sector;
   within a directory a record follows the previous one directly when it fits
   in the rest of the sector and starts the next sector when it does not. *)
SameDirectory(k) ==
  /\ sink[k].kind = "record"
  /\ sink[k + 1].kind = "record"
  /\ Parent(sink[k].id) = Parent(sink[k + 1].id)

Fits(k) ==
  /\ ((sink[k].offset + sink[k].len) % sector_size) + sink[k + 1].len <= sector_size
  /\ ((sink[k].offset + sink[k].len) % sector_size) # 0

C3_NoRecordCrossesSector ==
  Written =>
    /\ \A k \in 1..Len(sink) :
         sink[k].kind = "record" =>
           /\ sink[k].len = DirectoryRecord_extent(sink[k].record)
           /\ sink[k].offset \div sector_size
                = (sink[k].offset + sink[k].len - 1) \div sector_size
    /\ \A k \in 1..(Len(sink) - 1) :
         SameDirectory(k) =>
           IF Fits(k)
           THEN sink[k + 1].offset = sink[k].offset + sink[k].len
           ELSE sink[k + 1].offset = (sink[k].offset \div sector_size + 1) * sector_size

C3_Witness ==
  /\ Written
  /\ \E k \in 1..(Len(sink) - 1) : SameDirectory(k) /\ ~Fits(k)

(* C5: after the Assign-LBAs pass every directory and file holds an LBA at or
   above the allocator's start, and the sector ranges of two distinct entries
   do not overlap. *)
Disjoint(n, m) ==
  \/ n.entry.extent_lba + ExtentSectors(n.entry, sector_size) <= m.entry.extent_lba
  \/ m.entry.extent_lba + ExtentSectors(m.entry, sector_size) <= n.entry.extent_lba

C5_ExtentsDisjoint ==
  Written =>
    LET nodes == VolumeNodes(volumes)
    IN /\ \A n \in nodes :
            n.entry.extent_lba # None /\ n.entry.extent_lba >= 16 + Len(volumes)
       /\ \A n, m \in nodes : n.id # m.id => Disjoint(n, m)

C5_Witness ==
  /\ Written
  /\ \E n, m \in VolumeNodes(volumes) :
       /\ n.entry.kind = "Directory"
       /\ m.entry.kind = "File"
       /\ Parent(m.id) = n.id
       /\ ExtentSectors(n.entry, sector_size) > 0
       /\ ExtentSectors(m.entry, sector_size) > 1
  /\ \E n \in VolumeNodes(volumes) : n.entry.kind = "File" /\ SourceLen(n.entry.source) = 0

(* C9: the sink receives the system area first, then the volume descriptors,
   then the set terminator, then the record sets of all directories in
   depth-first order and only then the contents of the files in upsert
   order. *)
Rank(kind) ==
  CASE kind = "system_area" -> 0
    [] kind = "descriptor" -> 1
    [] kind = "terminator" -> 2
    [] kind = "record" -> 3
    [] OTHER -> 4

C9_WriteOrder ==
  (Written /\ Len(volumes) >= 1) =>
    /\ Len(sink) >= 1 /\ sink[1].kind = "system_area"
    /\ \E t \in 1..Len(sink) : sink[t].kind = "terminator"
    /\ \A i, j \in 1..Len(sink) :
         i < j =>
           /\ Rank(sink[i].kind) <= Rank(sink[j].kind)
           /\ (sink[i].kind = "record" /\ sink[j].kind = "record")
                => LexLeq(Parent(sink[i].id), Parent(sink[j].id))
           /\ (sink[i].kind = "content" /\ sink[j].kind = "content")
                => LexLeq(sink[i].id, sink[j].id)

----------------------------------------------------------------------------
(* Properties of the LBA allocators *)

Monotonic(calls, a) ==
  /\ \A i, j \in 1..Len(calls) :
       i < j => calls[j][2] >= calls[i][2] + CeilDiv(calls[i][1], a.sector_size)
  /\ \A i \in 1..Len(calls) :
       a.next_lba >= calls[i][2] + CeilDiv(calls[i][1], a.sector_size)

(* C4: a later allocate call returns an LBA at or above an earlier call's LBA
   plus the sectors the earlier size needs, rounded up; the cursor stays at or
   above every extent handed out. *)
C4_AllocatorMonotonic ==
  /\ Monotonic(allocated, allocator)
  /\ Monotonic(layout_allocated, layout_allocator)

C4_Witness ==
  /\ Len(allocated) >= 2
  /\ allocated[1][1] % allocator.sector_size # 0
  /\ allocated[2][2] > allocated[1][2]
  /\ Len(layout_allocated) >= 2
  /\ layout_allocated[1][1] % layout_allocator.sector_size # 0
  /\ layout_allocated[2][2] > layout_allocated[1][2]

----------------------------------------------------------------------------
(* Properties of Filesystem::upsert_file *)

RECURSIVE UniqueNames(_)
UniqueNames(dir) ==
  /\ \A i, j \in 1..Len(dir.entries) : i # j => dir.entries[i].name # dir.entries[j].name
  /\ \A i \in 1..Len(dir.entries) :
       dir.entries[i].kind = "Directory" => UniqueNames(dir.entries[i])

(* C6: no directory of a tree built by upsert_file calls, the root included,
   has two children with the same name. *)
C6_UniqueNames ==
  /\ UniqueNames(filesystem)
  /\ \A v \in 1..Len(volumes) : UniqueNames(volumes[v])

(* C7: upsert_file is idempotent: repeating the call that was just made, with
   the same destination and source, leaves the tree as it is. *)
C7_UpsertIdempotent ==
  last_upsert.result = "Ok" =>
    upsert_file(filesystem.entries, last_upsert.destination, last_upsert.source)
      = filesystem.entries

RECURSIVE HasChain(_, _, _)
HasChain(entries, destination, source) ==
  \E i \in 1..Len(entries) :
    /\ entries[i].name = Head(destination)
    /\ IF Len(destination) = 1
       THEN entries[i].kind = "File" /\ entries[i].source = source
       ELSE /\ entries[i].kind = "Directory"
            /\ HasChain(entries[i].entries, Tail(destination), source)

RECURSIVE SingleChain(_, _)
SingleChain(entries, destination) ==
  /\ Len(entries) = 1
  /\ entries[1].name = Head(destination)
  /\ IF Len(destination) = 1
     THEN entries[1].kind = "File"
     ELSE entries[1].kind = "Directory" /\ SingleChain(entries[1].entries, Tail(destination))

TooLong(destination) ==
  \/ Len(destination[Len(destination)]) > FileIdentifierLength
  \/ \E i \in 1..(Len(destination) - 1) : Len(destination[i]) > DirectoryIdentifierLength

(* C15: upsert_file with a destination that has a component longer than the
   identifier limit (32 bytes for the file name, 31 for a directory name)
   returns an error and leaves the tree as it was. *)
C15_LongComponentRejected ==
  [][(upserts' = upserts + 1 /\ TooLong(last_upsert'.destination))
       => (last_upsert'.result = "Err" /\ filesystem' = filesystem)]_vars

(* C8: after upsert_file(p1/.../pn, source) the root holds a directory p1,
   each p(i) holds a directory p(i+1), and p(n-1) holds a file pn with that
   source; on an empty tree the result is one chain of single children. *)
C8_UpsertBuildsChain ==
  last_upsert.result = "Ok" =>
    /\ HasChain(filesystem.entries, last_upsert.destination, last_upsert.source)
    /\ last_upsert.on_empty => SingleChain(filesystem.entries, last_upsert.destination)

C8_Witness ==
  /\ last_upsert.result = "Ok"
  /\ Len(last_upsert.destination) = 2
  /\ ~last_upsert.on_empty
  /\ upserts = 2
  /\ Len(filesystem.entries) = 1
  /\ Len(filesystem.entries[1].entries) = 2

----------------------------------------------------------------------------
(* Properties of Iso::scan_volumes *)

(* the sectors before the first set terminator, or all of them *)
RECURSIVE BeforeTerminator(_, _)
BeforeTerminator(sectors, i) ==
  IF i > Len(sectors) \/ sectors[i].type = 255 THEN <<>>
  ELSE <<i>> \o BeforeTerminator(sectors, i + 1)

(* C10: scan_volumes stops at the first set terminator or at the end of the
   storage and returns Ok with exactly the descriptors before that point,
   reading nothing at or past the end of the storage. *)
C10_ScanStopsAndReturns ==
  (scan_pc \in {"ok", "panic"} /\ ~storage.short) =>
    /\ scan_pc = "ok"
    /\ scan_volumes = BeforeTerminator(storage.sectors, 1)

----------------------------------------------------------------------------
(* Properties of Directory::read_from_iso *)

(* the records stored whole in the first size bytes of an extent, each with
   its offset *)
StoredRecords(img, location, size) ==
  UNION {{[record |-> img[location + k][i],
           offset |-> k * SECTOR_SIZE + record_offset(img[location + k], i)]
          : i \in 1..Len(img[location + k])}
         : k \in 0..(CeilDiv(size, SECTOR_SIZE) - 1)}

InExtent(r, size) == r.offset + r.record.length <= size

(* a record of a file whose content the reader can read *)
ReadableFile(img, record) ==
  /\ ~is_directory(record)
  /\ parse_from_buffer(record).some
  /\ record.extent_location > 0
  /\ record.extent_size > 0
  /\ read_exact(img, record.extent_location, record.extent_size)

(* C11: when the walk meets 0x00 in a sector of a directory extent it goes on
   at the next sector boundary: every file record stored in a later sector of
   the root extent, within its data length, is among the files returned. *)
C11_PaddingSkipped ==
  read_pc = "ok" =>
    \A r \in StoredRecords(image, root_entry.extent_location, root_entry.extent_size) :
      (r.offset >= SECTOR_SIZE /\ InExtent(r, root_entry.extent_size)
         /\ ReadableFile(image, r.record))
        => parse_from_buffer(r.record).name \in DOMAIN read_result.files

Directories(frames) == {frames[i].directory : i \in 1..Len(frames)}

RECURSIVE Subdirectories(_)
Subdirectories(dir) ==
  {dir} \cup UNION {Subdirectories(dir.directories[n]) : n \in DOMAIN dir.directories}

(* every Directory value the reader holds or has returned *)
ReadDirectories ==
  UNION {Subdirectories(d) : d \in Directories(read_stack) \cup {read_result}}

(* C12: no Directory built by read_from_iso holds a file or a subdirectory
   named "." or "..", and no record whose identifier is the single byte 0x00
   or 0x01 has been turned into an entry. *)
C12_NoDotEntries ==
  /\ \A d \in ReadDirectories :
       /\ Dot \notin DOMAIN d.files \cup DOMAIN d.directories
       /\ DotDot \notin DOMAIN d.files \cup DOMAIN d.directories
  /\ \A i \in 1..Len(read_stack) :
       \A r \in StoredRecords(image, read_stack[i].directory.sector_location,
                              read_stack[i].directory.size) :
         (r.record.file_identifier \in {<<0>>, <<1>>} /\ r.record.file_id_length = 1)
           => parse_from_buffer(r.record).name
                \notin DOMAIN read_stack[i].directory.files
                         \cup DOMAIN read_stack[i].directory.directories

DotRecord(record) ==
  record.file_id_length = 1 /\ record.file_identifier \in {<<0>>, <<1>>}

(* C12, amended: no Directory built by read_from_iso holds a file or a
   subdirectory named "." or "..", and no record that carries the directory
   flag and whose identifier is the single byte 0x00 or 0x01 has been turned
   into an entry. *)
C12_NoDotDirectoryEntries ==
  /\ \A d \in ReadDirectories :
       /\ Dot \notin DOMAIN d.files \cup DOMAIN d.directories
       /\ DotDot \notin DOMAIN d.files \cup DOMAIN d.directories
  /\ \A i \in 1..Len(read_stack) :
       \A r \in StoredRecords(image, read_stack[i].directory.sector_location,
                              read_stack[i].directory.size) :
         (DotRecord(r.record) /\ is_directory(r.record))
           => parse_from_buffer(r.record).name
                \notin DOMAIN read_stack[i].directory.files
                         \cup DOMAIN read_stack[i].directory.directories

(* the root's ".." record names a directory the reader could read, the walk
   went over it and on to a file it kept *)
C12_Witness ==
  /\ read_pc = "ok"
  /\ read_entry.entry.some /\ ~is_directory(read_entry.record)
  /\ DOMAIN read_result.files # {}
  /\ \E r \in StoredRecords(image, root_entry.extent_location, root_entry.extent_size) :
       /\ r.offset = 0
       /\ DotRecord(r.record) /\ is_directory(r.record)
       /\ r.record.extent_location # root_entry.extent_location
       /\ read_from_iso_enter(image, parse_from_buffer(r.record)) = "Ok"

IsDigit(b) == b \in 48..57

(* NAME of an identifier NAME;REV with a decimal REV, the identifier itself
   when it has no such suffix *)
TrimRevision(identifier) ==
  LET semis == {i \in 1..(Len(identifier) - 1) :
                  /\ identifier[i] = 59
                  /\ \A j \in (i + 1)..Len(identifier) : IsDigit(identifier[j])}
  IN IF semis = {} THEN identifier
     ELSE SubSeq(identifier, 1, (CHOOSE i \in semis : \A j \in semis : i <= j) - 1)

(* C13: the name parse_from_buffer reports for a file record NAME;REV is
   NAME, whatever the decimal revision REV. *)
C13_RevisionTrimmed ==
  (read_entry.entry.some /\ ~is_directory(read_entry.record)
     /\ TrimRevision(read_entry.record.file_identifier) # read_entry.record.file_identifier)
    => read_entry.entry.name = TrimRevision(read_entry.record.file_identifier)

(* a record of the extent whose subdirectory or file the reader cannot read *)
Unreadable(img, location, record) ==
  /\ parse_from_buffer(record).some
  /\ parse_from_buffer(record).name \notin {Dot, DotDot}
  /\ IF is_directory(record)
     THEN /\ record.extent_location # location
          /\ read_from_iso_enter(img, parse_from_buffer(record)) # "Ok"
     ELSE /\ record.extent_location > 0
          /\ record.extent_size > 0
          /\ ~read_exact(img, record.extent_location, record.extent_size)

(* C14: read_from_iso does not return Ok when a record it walked over names a
   subdirectory or a file it failed to read: the error reaches the caller. *)
C14_ErrorsPropagate ==
  read_pc = "ok" =>
    \A r \in StoredRecords(image, root_entry.extent_location, root_entry.extent_size) :
      (r.offset < SECTOR_SIZE /\ InExtent(r, root_entry.extent_size))
        => ~Unreadable(image, root_entry.extent_location, r.record)

----------------------------------------------------------------------------
(* Properties of the isofs codec *)

Serialized == codec_result.kind \in {"Ok", "OutputBufferTooSmall"}

(* C16: serialize into a buffer shorter than the value's extent returns the
   buffer-too-small error with expected = extent and actual = the buffer's
   length, and leaves every byte of the buffer as it was. *)
C16_ShortBufferRejected ==
  (Serialized /\ codec_out.len < extent(codec_value)) =>
    /\ codec_result.kind = "OutputBufferTooSmall"
    /\ codec_result.expected = extent(codec_value)
    /\ codec_result.actual = codec_out.len
    /\ \A k \in 0..(codec_out.len - 1) : out_byte(codec_out, k) = codec_out.fill

(* a primary volume descriptor in a buffer of 2047 bytes *)
C16_Witness ==
  /\ codec_value.type = "PrimaryVolumeDescriptor"
  /\ codec_out.len = 2047
  /\ codec_result = [kind |-> "OutputBufferTooSmall", expected |-> 2048, actual |-> 2047]

(* the dual-endian fields of a value: offset, width of one half, value *)
Field(offset, width, value) == [offset |-> offset, width |-> width, value |-> value]

RecordFields(record, at) ==
  {Field(at + 2, 4, record.extent_location),
   Field(at + 10, 4, record.data_length),
   Field(at + 28, 2, record.volume_sequence_number)}

DualEndianFields(value) ==
  CASE value.type \in {"PrimaryVolumeDescriptor", "SupplementaryVolumeDescriptor"} ->
         {Field(80, 4, value.record.volume_space_size),
          Field(120, 2, value.record.volume_set_size),
          Field(124, 2, value.record.volume_sequence_number),
          Field(128, 2, value.record.logical_block_size),
          Field(132, 4, value.record.path_table_size)}
         \cup RecordFields(value.record.root_directory_record, 156)
    [] value.type \in {"DirectoryRecord", "RootDirectoryRecord"} ->
         RecordFields(value.record, 0)
    [] OTHER -> {}

RECURSIVE from_le_bytes(_, _, _)
from_le_bytes(out, at, width) ==
  IF width = 0 THEN 0
  ELSE out_byte(out, at) + 256 * from_le_bytes(out, at + 1, width - 1)

RECURSIVE from_be_bytes(_, _, _)
from_be_bytes(out, at, width) ==
  IF width = 0 THEN 0
  ELSE out_byte(out, at + width - 1) + 256 * from_be_bytes(out, at, width - 1)

(* C17: in the bytes of a serialized descriptor or record the little-endian
   half of every dual-endian field and the big-endian half that follows it
   decode to the same integer, the field's value. *)
C17_DualEndianAgree ==
  codec_result.kind = "Ok" =>
    \A f \in DualEndianFields(codec_value) :
      /\ from_le_bytes(codec_out, f.offset, f.width) = f.value
      /\ from_be_bytes(codec_out, f.offset + f.width, f.width) = f.value

(* fields whose bytes differ from one another have been written *)
C17_Witness ==
  /\ codec_result.kind = "Ok"
  /\ codec_value.type = "PrimaryVolumeDescriptor"
  /\ codec_value.record.volume_space_size = 16909060
  /\ codec_value.record.volume_set_size = 258
  /\ codec_value.record.root_directory_record.extent_location = 2147483647

(* d-characters: 0-9, A-Z and _ ; a-characters: those and
   space ! " % & ' ( ) * + , - . / : ; < = > ? *)
DChars == (48..57) \cup (65..90) \cup {95}
AChars == DChars \cup {32, 33, 34} \cup (37..47) \cup (58..63)

(* the fixed-length character fields of a primary volume descriptor: offset,
   length, class and the string the writer built the field from *)
CharField(offset, length, class, string) ==
  [offset |-> offset, length |-> length, class |-> class, string |-> string]

CharacterFields(volume_id) ==
  {CharField(8, 32, AChars, Literals.system),
   CharField(40, 32, DChars \cup {32}, volume_id),
   CharField(190, 128, DChars \cup {32}, Literals.volume_set),
   CharField(318, 128, AChars, Literals.publisher),
   CharField(446, 128, AChars, Literals.data_preparer),
   CharField(574, 128, AChars, Literals.application),
   CharField(702, 37, DChars \cup {32}, Literals.copyright),
   CharField(739, 37, DChars \cup {32}, Literals.abstract),
   CharField(776, 37, DChars \cup {32}, Literals.bibliographic)}

(* C18: in a serialized primary volume descriptor built by the writer every
   byte of a class-D field is a d-character or 0x20, every byte of a class-A
   field is an a-character, and a string shorter than its field is followed
   by 0x20 up to the field's end. *)
C18_CharacterClasses ==
  (codec_result.kind = "Ok" /\ codec_value.type = "PrimaryVolumeDescriptor") =>
    \E volume_id \in VolumeIds :
      /\ codec_value.record.volume_identifier = DCharacters_from_bytes_truncated(volume_id, 32)
      /\ \A f \in CharacterFields(volume_id) :
           \A i \in 0..(f.length - 1) :
             /\ out_byte(codec_out, f.offset + i) \in f.class
             /\ i >= Len(f.string) => out_byte(codec_out, f.offset + i) = 32

----------------------------------------------------------------------------
(* Properties of the extents of IsoWriter::write *)

(* the extent a write belongs to: a record to its directory's, content to
   its file's *)
Owner(e) == IF e.kind = "record" THEN Parent(e.id) ELSE e.id

SectorsOf(e) == (e.offset \div sector_size)..((e.offset + e.len - 1) \div sector_size)

InDirectoryExtent(e) ==
  \E n \in VolumeNodes(volumes) :
    /\ n.id = Parent(e.id)
    /\ n.entry.extent_lba * sector_size <= e.offset
    /\ e.offset + e.len
         <= (n.entry.extent_lba + ExtentSectors(n.entry, sector_size)) * sector_size

(* C19: every byte written for a directory's records lies inside the sectors
   allocated to that directory, [lba, lba + ceil(data_length / sector_size)),
   and no sector receives bytes of two different extents. *)
C19_RecordsInsideExtent ==
  Written =>
    /\ \A k \in 1..Len(sink) : sink[k].kind = "record" => InDirectoryExtent(sink[k])
    /\ \A k, j \in 1..Len(sink) :
         (/\ sink[k].kind \in {"record", "content"}
          /\ sink[j].kind \in {"record", "content"}
          /\ Owner(sink[k]) # Owner(sink[j]))
           => SectorsOf(sink[k]) \cap SectorsOf(sink[j]) = {}

(* C20: with N volumes every LBA assigned to a directory or a file, the first
   volume's root included, is strictly greater than 16+N. *)
C20_ExtentsAfterTerminator ==
  (Written /\ Len(volumes) >= 1) =>
    \A n \in VolumeNodes(volumes) :
      n.entry.extent_lba # None /\ n.entry.extent_lba > 16 + Len(volumes)

----------------------------------------------------------------------------
(* Properties of the recursion of Directory::read_from_iso *)

(* C21: read_from_iso terminates on every image, an image whose directories
   list one another included: the call returns, Ok or Err. *)
C21_ReadTerminates == <>(read_pc \in {"ok", "err"})

(* C22: while the directory at LBA L is read no call is made for a record
   whose extent LBA is L, and no subdirectory entry of that directory has
   the extent L. *)
C22_NoSelfRecursion ==
  /\ \A i \in 2..Len(read_stack) :
       read_stack[i].directory.sector_location # read_stack[i - 1].directory.sector_location
  /\ \A d \in ReadDirectories :
       \A n \in DOMAIN d.directories :
         d.directories[n].sector_location # d.sector_location

(* the loop has passed a directory record, not "." or "..", that names the
   directory being read, and the call has returned *)
C22_Witness ==
  /\ read_pc = "ok"
  /\ read_entry.entry.some
  /\ is_directory(read_entry.entry)
  /\ ~skipped(read_entry.entry)
  /\ read_entry.entry.extent_location = read_result.sector_location
  /\ read_from_iso_enter(image, read_entry.entry) = "Ok"

----------------------------------------------------------------------------
(* Properties of the Assign-LBAs pass and of the records written *)

RECURSIVE SumSectors(_)
SumSectors(nodes) ==
  IF nodes = {} THEN 0
  ELSE LET n == CHOOSE n \in nodes : TRUE
       IN ExtentSectors(n.entry, sector_size) + SumSectors(nodes \ {n})

(* C23: the Assign-LBAs pass takes one allocation per node: the allocator's
   cursor after the pass is its start plus the sum, over all directories and
   files, of ceil(data_length / sector_size). *)
C23_OneAllocationPerNode ==
  Written =>
    allocator.next_lba = Len(volumes) + 16 + SumSectors(VolumeNodes(volumes))

(* C24: the directory record written for an entry takes as many bytes as
   its length field states: the field is 33 + the identifier's length, plus
   1 when that sum is odd, it is even and it equals the record's extent; the
   record bytes written for a directory add up to its data_length. *)
RECURSIVE SumLen(_, _)
SumLen(events, id) ==
  IF events = <<>> THEN 0
  ELSE (IF events[1].kind = "record" /\ Parent(events[1].id) = id THEN events[1].len ELSE 0)
       + SumLen(Tail(events), id)

C24_RecordLength ==
  Written =>
    /\ \A n \in VolumeNodes(volumes) :
         n.entry.kind # "Root" =>
           \E k \in 1..Len(sink) :
             /\ sink[k].kind = "record"
             /\ sink[k].id = n.id
             /\ sink[k].record.length
                  = 33 + Len(n.entry.name) + (IF (33 + Len(n.entry.name)) % 2 = 1 THEN 1 ELSE 0)
             /\ sink[k].record.length % 2 = 0
             /\ sink[k].record.length = DirectoryRecord_extent(sink[k].record)
             /\ sink[k].len = sink[k].record.length
    /\ \A n \in VolumeNodes(volumes) :
         n.entry.kind # "File" => SumLen(sink, n.id) = data_length(n.entry)

----------------------------------------------------------------------------
(* Properties of SectorWriter::write_aligned *)

(* C25: write_aligned of a buffer longer than the sector size returns an
   error, writes nothing and leaves the sector index and the offset in the
   sector as they were. *)
C25_LongBufferRejected ==
  [][(/\ aligned_result'.calls = aligned_result.calls + 1
      /\ aligned_result'.buf_len > aligned_writer.sector_size)
       => (/\ aligned_result'.kind = "Err"
           /\ aligned_io' = aligned_io
           /\ aligned_writer' = aligned_writer)]_vars

----------------------------------------------------------------------------
(* Properties of DirectoryLike::upsert *)

SameNamed(entries, entry) ==
  {i \in 1..Len(entries) : entries[i].kind = entry.kind /\ entries[i].name = entry.name}

(* a file of that name is replaced where it stands *)
ReplacedIn(before, after, file) ==
  \E i \in SameNamed(before, file) : after = [before EXCEPT ![i] = file]

(* the children of a directory after a file was merged into them *)
FileMerged(before, after, file) ==
  IF SameNamed(before, file) # {} THEN ReplacedIn(before, after, file)
  ELSE after = Append(before, file)

(* a directory of that name took the incoming directory's file, no sibling
   was added and no other entry changed *)
MergedIn(before, after, dir) ==
  /\ Len(after) = Len(before)
  /\ \E i \in SameNamed(before, dir) :
       /\ \A j \in 1..Len(before) : j # i => after[j] = before[j]
       /\ after[i] = [before[i] EXCEPT !.entries = after[i].entries]
       /\ FileMerged(before[i].entries, after[i].entries, dir.entries[1])

(* C26: upserting a file whose name is that of a file of the directory
   replaces that file in place and changes nothing else; upserting a
   directory whose name is that of a directory of the directory adds no
   sibling and merges the children. *)
C26_UpsertInPlace ==
  [][(merge_last'.calls = merge_last.calls + 1 /\ SameNamed(merge_entries, merge_last'.entry) # {})
       => IF merge_last'.entry.kind = "File"
          THEN ReplacedIn(merge_entries, merge_entries', merge_last'.entry)
          ELSE MergedIn(merge_entries, merge_entries', merge_last'.entry)]_vars

----------------------------------------------------------------------------
(* C27: serialize of any value into a buffer of at least extent() bytes
   returns Ok(extent()) without aborting and changes no byte of the buffer
   from extent() on. *)
C27_SerializeTotal ==
  (codec_result # NoResult /\ codec_out.len >= extent(codec_value)) =>
    /\ codec_result.kind = "Ok"
    /\ codec_result.expected = extent(codec_value)
    /\ \A k \in extent(codec_value)..(codec_out.len - 1) :
         out_byte(codec_out, k) = codec_out.fill

----------------------------------------------------------------------------
(* C28: parsing a descriptor sector whose type byte is none of 0, 1, 2, 255
   completes: the parser returns a descriptor or a parse error and the
   volume scan is not aborted. *)
C28_UnknownTypeParses ==
  (parse_result # Unparsed /\ parse_sector.type \notin {0, 1, 2, 255}) =>
    /\ parse_result.spec \in {"Ok", "Err"}
    /\ parse_result.lib \in {"Ok", "Err"}

----------------------------------------------------------------------------
(* Properties of the Iso *)

RECURSIVE DirectoryPaths(_)
DirectoryPaths(dir) ==
  UNION {{<<n>>} \cup {<<n>> \o p : p \in DirectoryPaths(dir.directories[n])} :
           n \in DOMAIN dir.directories}

(* the files of a tree: path and content *)
RECURSIVE FilesOf(_)
FilesOf(dir) ==
  {<<<<n>>, dir.files[n].content>> : n \in DOMAIN dir.files}
  \cup UNION {{<<<<n>> \o f[1], f[2]>> : f \in FilesOf(dir.directories[n])} :
                n \in DOMAIN dir.directories}

(* C29: the image write_to makes of a built Iso that holds at least one file
   is accepted by read_from, and the tree read back has the directory paths,
   the file paths and the file contents of the tree written. *)
C29_RoundTrip ==
  (iso_read # NotRead /\ FilesOf(iso_read.root_directory) # {}) =>
    /\ iso_read.result.kind = "Ok"
    /\ DirectoryPaths(iso_read.result.iso.root_directory)
         = DirectoryPaths(iso_read.root_directory)
    /\ FilesOf(iso_read.result.iso.root_directory) = FilesOf(iso_read.root_directory)

AddCalls == {"add_file", "add_file_with_content", "add_directory"}

(* C30: is_modified() is true after build and after every successful add_*
   and *_mut call, stays true until a save succeeds, is false right after a
   successful save or read_from, and an add_* call that returns an error
   leaves the flag and the tree as they were. *)
C30_ModifiedTracksChanges ==
  /\ iso_last.op = "build" => iso.modified
  /\ (iso_last.kind = "Ok"
      /\ iso_last.op \in AddCalls \cup {"root_directory_mut", "volume_descriptor_mut"})
       => iso.modified
  /\ (iso_last.before.modified /\ ~(iso_last.op = "save" /\ iso_last.kind = "Ok"))
       => iso.modified
  /\ (iso_last.op = "save" /\ iso_last.kind = "Ok") => ~iso.modified
  /\ iso_read.result.kind = "Ok" => ~iso_read.result.iso.modified
  /\ (iso_last.op \in AddCalls /\ iso_last.kind = "Err") => iso = iso_last.before

====
